---- MODULE Spec2Model ----
(***************************************************************************)
(* A model of the llm-council deliberation pipeline (backend/council.py,   *)
(* backend/contracts.py, backend/main.py).                                 *)
(*                                                                         *)
(* Texts are modelled by the features the code's regular expressions read: *)
(* a judge output is a record holding, per letter A..D, the critique line  *)
(* found for it (or none), and one ranking line, with or without the       *)
(* FINAL_RANKING: prefix, as the sequence of its '>'-separated chunks.     *)
(* Model identifiers are pairs <<vendor, name>>; <<>> is the empty string. *)
(***************************************************************************)
EXTENDS Integers, Sequences, FiniteSets, TLC

VARIABLES
    parser,         \* council.py: a call of the output parser, its arguments and result
    store,          \* storage.py: what backs the conversation store, and the DELETE handler's answer
    api,            \* main.py: the send_message request and the handler's locals
    convo,          \* storage.py: the stored conversation the request names
    cfg,            \* environment-driven configuration of the process
    contract_stack, \* the request's contract_stack parameter
    contract_ids,   \* the list parse_contract_ids returned (<<>> before it has)
    pc,             \* position of the request in the pipeline
    gen,            \* Stage 1: one task per generator (run_one)
    errors1,        \* Stage 1: the local errors dict
    stage1_results, \* Stage 1: the returned list
    jud,            \* Stage 2: one task per judge (run_one), then the adjudicator's
    errors2,        \* Stage 2: the local errors dict
    stage2_results, \* Stage 2: the results list
    label_to_model, \* Stage 2: the returned label map
    aggregate_rankings, \* output of calculate_aggregate_rankings
    s3,             \* Stage 3: locals of stage3_synthesize_final
    stage3_result,  \* Stage 3: the returned dict
    STAGE1_LAST_ERRORS, \* process-wide diagnostics
    STAGE2_LAST_ERRORS,
    raised,         \* the exception a stage function raised, or "none"
    order1          \* history: generator tasks in the order they completed

vars == <<parser, store, api, convo, cfg, contract_stack, contract_ids, pc, gen, errors1, stage1_results, jud, errors2,
          stage2_results, label_to_model, aggregate_rankings, s3,
          stage3_result, STAGE1_LAST_ERRORS, STAGE2_LAST_ERRORS, raised, order1>>

-----------------------------------------------------------------------------
(* Generic helpers                                                         *)

Range(s) == {s[i] : i \in 1..Len(s)}

RECURSIVE Dedupe(_)
\* order-preserving removal of repeats (the seen-set loops of the code)
Dedupe(s) ==
    IF s = <<>> THEN <<>>
    ELSE LET front == Dedupe(SubSeq(s, 1, Len(s) - 1))
             x == s[Len(s)]
         IN IF x \in Range(front) THEN front ELSE Append(front, x)

IsSuffix(suf, s) ==
    /\ Len(suf) <= Len(s)
    /\ SubSeq(s, Len(s) - Len(suf) + 1, Len(s)) = suf

RECURSIVE SumSeq(_)
SumSeq(s) == IF s = <<>> THEN 0 ELSE s[1] + SumSeq(Tail(s))

-----------------------------------------------------------------------------
(* Model identifiers and labels                                            *)

NoModel == <<>>

\* m.startswith("google/")
StartsWithGoogle(m) == m # <<>> /\ m[1] = "google"

\* f"Response {chr(ord('A') + idx)}" for idx = 0, 1, ...
LabelFor == [A |-> "Response A", B |-> "Response B", C |-> "Response C",
             D |-> "Response D", E |-> "Response E", F |-> "Response F"]

LetterAt == <<"A", "B", "C", "D", "E", "F">>

LabelAt(idx) == LabelFor[LetterAt[idx]]

NoLabel == ""

-----------------------------------------------------------------------------
(* Chat replies and texts                                                  *)

ExcReply == [kind |-> "exc"]      \* the transport raises
EmptyText == [kind |-> "empty"]   \* ""
PidReply == [kind |-> "pid"]      \* a provider id in the content slot

\* _looks_like_provider_id
LooksLikeProviderId(t) == t.kind = "pid"

\* truthiness of a text
NonEmpty(t) == t.kind # "empty"

\* _chat: the text the adapter returns for a reply that does not raise; a
\* provider id is filtered to "" (the deep extraction then finds no other text)
ChatText(reply) ==
    IF reply.kind = "empty" \/ LooksLikeProviderId(reply) THEN EmptyText ELSE reply

\* A critique line: has "strength:" (s), has "flaw:" (f), contains
\* "insufficient signal in text" (ph), shares an evidence token with the
\* response it is about (ev).
NoLine == [present |-> FALSE, s |-> FALSE, f |-> FALSE, ph |-> FALSE, ev |-> FALSE]
Crit(s, f, ph, ev) == [present |-> TRUE, s |-> s, f |-> f, ph |-> ph, ev |-> ev]

\* "Response X: Strength: None; Flaw: Insufficient signal in text."
PlaceholderLine == Crit(TRUE, TRUE, TRUE, FALSE)

CritLetters == <<"A", "B", "C", "D">>

\* A chunk of a ranking line: "Response X" (full), a bare letter, or other text
Full(l) == [form |-> "full", letter |-> l]
Bare(l) == [form |-> "bare", letter |-> l]
Junk == [form |-> "junk", letter |-> ""]

JudgeText(narr, crit, final, chunks) ==
    [kind |-> "text", narr |-> narr, crit |-> crit, final |-> final, chunks |-> chunks]

\* _contains_process_narration
ContainsProcessNarration(t) == t.kind = "text" /\ t.narr

-----------------------------------------------------------------------------
(* Output parser (council.py: _extract_final_ranking_line,                 *)
(* _extract_fuzzy_ranking_chain, _parse_ranking_order)                     *)

\* the chunks after the last FINAL_RANKING: of the text, or "no such line"
HasFinalRankingLine(t) == t.kind = "text" /\ t.final

RECURSIVE RunsOf(_, _, _)
\* the maximal runs of chunks of the given form, as <<first, last>> pairs
RunsOf(chunks, form, from) ==
    IF from > Len(chunks) THEN <<>>
    ELSE IF chunks[from].form # form \/ (form = "bare" /\ chunks[from].letter \in {"E", "F"})
         THEN RunsOf(chunks, form, from + 1)
    ELSE LET ends == {e \in from..Len(chunks) :
                        \A k \in from..e :
                            /\ chunks[k].form = form
                            /\ ~(form = "bare" /\ chunks[k].letter \in {"E", "F"})}
             last == CHOOSE e \in ends : \A e2 \in ends : e2 <= e
         IN <<<<from, last>>>> \o RunsOf(chunks, form, last + 1)

\* _extract_fuzzy_ranking_chain: the last chain of two or more full labels,
\* else the first chain of three or more bare letters A-D, as full labels
ExtractFuzzyRankingChain(t) ==
    IF t.kind # "text" THEN <<>>
    ELSE LET fr == SelectSeq(RunsOf(t.chunks, "full", 1), LAMBDA r : r[2] - r[1] >= 1)
             br == SelectSeq(RunsOf(t.chunks, "bare", 1), LAMBDA r : r[2] - r[1] >= 2)
         IN IF fr # <<>> THEN SubSeq(t.chunks, fr[Len(fr)][1], fr[Len(fr)][2])
            ELSE IF br # <<>>
                 THEN [i \in 1..(br[1][2] - br[1][1] + 1) |->
                          Full(t.chunks[br[1][1] + i - 1].letter)]
            ELSE <<>>

\* norm_label of _parse_ranking_order; allowed_labels = <<>> stands for None
NormLabel(ch, allowed_labels) ==
    IF ch.form = "junk" THEN NoLabel
    ELSE LET lab == LabelFor[ch.letter]
         IN IF allowed_labels = <<>> \/ lab \in Range(allowed_labels)
            THEN lab ELSE NoLabel

ParseRankingOrder(chunks, allowed_labels) ==
    LET labs == [i \in 1..Len(chunks) |-> NormLabel(chunks[i], allowed_labels)]
        out == Dedupe(SelectSeq(labs, LAMBDA l : l # NoLabel))
    IN IF out = <<>> THEN <<>>
       ELSE IF /\ allowed_labels # <<>>
               /\ \/ Len(out) # Cardinality(Range(allowed_labels))
                  \/ Range(out) # Range(allowed_labels)
            THEN <<>>
       ELSE out

ParseRankingFromText(t, allowed_labels) ==
    IF HasFinalRankingLine(t) THEN ParseRankingOrder(t.chunks, allowed_labels)
    ELSE LET chain == ExtractFuzzyRankingChain(t)
         IN IF chain = <<>> THEN <<>> ELSE ParseRankingOrder(chain, allowed_labels)

\* _example_ranking, as the sequence of labels the example line joins
ExampleRankingCanonical(labels) == labels
ExampleRanking(labels) ==
    IF labels = <<>>
    THEN <<"Response B", "Response C", "Response A", "Response D">>
    ELSE IF Len(labels) = 4
         THEN <<labels[2], labels[3], labels[1], labels[4]>>
    ELSE Tail(labels) \o <<labels[1]>>

-----------------------------------------------------------------------------
(* Coercion to the canonical 5-line form (council.py: _coerce_stage2_5line) *)

CritLineRec(label, line) == [tag |-> "crit", label |-> label, crit |-> line, order |-> <<>>]
FinalLineRec(order) == [tag |-> "final", label |-> NoLabel, crit |-> NoLine, order |-> order]

NoCanonical == <<>>

\* keep + [lab for lab in labels if lab not in seen]
CompleteOrder(parsed_any, labels) ==
    LET keep == Dedupe(SelectSeq(parsed_any, LAMBDA lab : lab \in Range(labels)))
    IN keep \o SelectSeq(labels, LAMBDA lab : lab \notin Range(keep))

\* line_for: the critique kept for the letter, else the placeholder
LineFor(t, labels, letter) ==
    IF LabelFor[letter] \in Range(labels) /\ t.crit[letter].present
    THEN CritLineRec(LabelFor[letter], t.crit[letter])
    ELSE CritLineRec(LabelFor[letter], PlaceholderLine)

\* the five lines, given the completed order `full`
CoerceLinesInLabelOrder(t, labels, full) ==
    IF Len(full) # Len(labels) \/ Range(full) # Range(labels) THEN NoCanonical
    ELSE <<LineFor(t, labels, "A"), LineFor(t, labels, "B"), LineFor(t, labels, "C"),
           LineFor(t, labels, "D"), FinalLineRec(labels)>>
CoerceLines(t, labels, full) ==
    IF Len(full) # Len(labels) \/ Range(full) # Range(labels) THEN NoCanonical
    ELSE <<LineFor(t, labels, "A"), LineFor(t, labels, "B"), LineFor(t, labels, "C"),
           LineFor(t, labels, "D"), FinalLineRec(full)>>

\* the letter a label ends with
LetterOf(label) == CHOOSE x \in DOMAIN LabelFor : LabelFor[x] = label

\* the canonical text as a reader of it sees it: "\n".join of the four critique
\* lines and "FINAL_RANKING: " + " > ".join(full)
CanonicalText(canonical) ==
    IF canonical = NoCanonical THEN EmptyText
    ELSE JudgeText(FALSE,
                   [l \in {"A", "B", "C", "D"} |->
                      canonical[CHOOSE k \in 1..4 : canonical[k].label = LabelFor[l]].crit],
                   TRUE,
                   [k \in 1..Len(canonical[5].order) |-> Full(LetterOf(canonical[5].order[k]))])

\* the rest of the function, given parsed_any
CoerceParsed(t, labels, parsed_any) ==
    IF parsed_any = <<>> THEN NoCanonical
    ELSE CoerceLines(t, labels, CompleteOrder(parsed_any, labels))

CoerceStage2_5line(t, labels) ==
    IF ~NonEmpty(t) \/ t.kind # "text" THEN NoCanonical
    ELSE CoerceParsed(t, labels, ParseRankingFromText(t, <<>>))

-----------------------------------------------------------------------------
(* Quality gate (council.py: _critique_is_placeholder, _evidence_ok,       *)
(* stage2_collect_rankings.run_one._classify_quality / _acceptable)        *)

STAGE2_EVIDENCE_MIN_LINES == 3

CritiqueIsBlank(line) == ~line.present
CritiqueIsPlaceholder(line) == ~line.present \/ line.ph

NoResponse == [kind |-> "empty"]

\* _evidence_ok: a response shorter than 20 characters is not held against
\* the judge; otherwise the line must share a token with the response. Every
\* line of the canonical form starts with "Response X:", so it shares the token
\* "response" with a response that contains that word (rw).
EvidenceOkUnchecked(line, response) == TRUE
EvidenceOk(line, response) ==
    IF response.kind = "empty" \/ response.short THEN TRUE ELSE line.ev \/ response.rw

MissingEvidenceReason ==
    <<"missing_evidence_0_of_4", "missing_evidence_1_of_4", "missing_evidence_2_of_4",
      "missing_evidence_3_of_4", "missing_evidence_4_of_4">>

Quality(partial, reason) == [partial |-> partial, reason |-> reason]

\* responses_by_label.get(label, "")
ResponseOf(responses_by_label, label) ==
    IF label \in DOMAIN responses_by_label THEN responses_by_label[label] ELSE NoResponse

ClassifyQuality(canonical_5, parsed_any, used_example, responses_by_label) ==
    IF canonical_5 = NoCanonical THEN Quality(TRUE, "empty_canonical")
    ELSE IF Len(canonical_5) # 5 THEN Quality(TRUE, "bad_line_count")
    ELSE LET critique_lines == SubSeq(canonical_5, 1, 4)
             placeholder_n ==
                 Cardinality({i \in 1..4 : CritiqueIsPlaceholder(critique_lines[i].crit)})
             ok_n ==
                 Cardinality({i \in 1..4 :
                     EvidenceOk(critique_lines[i].crit,
                                ResponseOf(responses_by_label, LabelFor[CritLetters[i]]))})
         IN IF \E i \in 1..4 : ~critique_lines[i].crit.s \/ ~critique_lines[i].crit.f
            THEN Quality(TRUE, "missing_strength_flaw")
            ELSE IF placeholder_n >= 2 THEN Quality(TRUE, "placeholder_critiques")
            ELSE IF used_example /\ placeholder_n > 0
                 THEN Quality(TRUE, "example_order_and_placeholder")
            ELSE IF Len(parsed_any) <= 1 THEN Quality(TRUE, "weak_ranking_signal")
            ELSE IF ok_n < STAGE2_EVIDENCE_MIN_LINES
                 THEN Quality(TRUE, MissingEvidenceReason[ok_n + 1])
            ELSE Quality(FALSE, "")

\* (parsed_full_order, canonical_5line, partial_flag, partial_reason);
\* parsed = <<>> stands for None
Verdict(parsed, canonical, partial, reason) ==
    [parsed |-> parsed, canonical |-> canonical, partial |-> partial, reason |-> reason]

\* the return statement of _acceptable, given the quality q
AcceptableClassified(parsed_full, canonical, q) ==
    Verdict(parsed_full, canonical, q.partial, q.reason)

\* _acceptable from the canonicalisation on
AcceptableCanonical(parsed_any, parsed_full, canonical, labels, responses_by_label) ==
    IF canonical = NoCanonical THEN Verdict(<<>>, NoCanonical, TRUE, "cannot_canonicalize")
    ELSE AcceptableClassified(parsed_full, canonical,
             ClassifyQuality(canonical, parsed_any,
                             \* used_example
                             IsSuffix(ExampleRanking(labels), parsed_full),
                             responses_by_label))

\* _acceptable from the completion of the ranking on
AcceptableUncompleted(txt, parsed_any, parsed_full, labels, responses_by_label) ==
    AcceptableCanonical(parsed_any, parsed_any, CoerceStage2_5line(txt, labels),
                        labels, responses_by_label)
AcceptableCompleted(txt, parsed_any, parsed_full, labels, responses_by_label) ==
    IF Len(parsed_full) # Len(labels) \/ Range(parsed_full) # Range(labels)
    THEN Verdict(<<>>, NoCanonical, TRUE, "bad_ranking_completion")
    ELSE AcceptableCanonical(parsed_any, parsed_full, CoerceStage2_5line(txt, labels),
                             labels, responses_by_label)

\* _acceptable from the parse of the ranking on
AcceptableParsed(txt, parsed_any, labels, responses_by_label) ==
    IF parsed_any = <<>> THEN Verdict(<<>>, NoCanonical, TRUE, "no_ranking_signal")
    ELSE AcceptableCompleted(txt, parsed_any, CompleteOrder(parsed_any, labels), labels,
                             responses_by_label)

Acceptable(txt, labels, responses_by_label) ==
    IF ~NonEmpty(txt) THEN Verdict(<<>>, NoCanonical, TRUE, "empty")
    ELSE IF LooksLikeProviderId(txt) THEN Verdict(<<>>, NoCanonical, TRUE, "provider_id")
    ELSE IF ContainsProcessNarration(txt)
         THEN Verdict(<<>>, NoCanonical, TRUE, "process_narration")
    ELSE AcceptableParsed(txt, ParseRankingFromText(txt, <<>>), labels, responses_by_label)

-----------------------------------------------------------------------------
(* Dictionaries (Python dict as a function on its key set)                 *)

EmptyDict == [k \in {} |-> ""]

DictSet(d, k, v) == [x \in (DOMAIN d) \cup {k} |-> IF x = k THEN v ELSE d[x]]

DictPop(d, k) == [x \in (DOMAIN d) \ {k} |-> d[x]]

-----------------------------------------------------------------------------
(* Contract evaluation (contracts.py: evaluate_contract_compliance)        *)

\* A generator or chairman text: the hard-fail reasons and the warnings the
\* detectors find in it, whether it is shorter than 20 characters, and whether
\* it contains the word "response"
ResponseText(hard, warns, short, rw) ==
    [kind |-> "text", hard |-> hard, warns |-> warns, short |-> short, rw |-> rw]

ContractEval(status, eligible, hard, warns) ==
    [status |-> status, eligible |-> eligible, hard_fail_reasons |-> hard,
     warnings |-> warns]

EvaluateWarningsAsFailures(response_text) ==
    LET hard_fail_reasons == IF response_text.kind = "text" THEN response_text.hard ELSE <<>>
        warnings == IF response_text.kind = "text" THEN response_text.warns
                    ELSE <<"no_tags">>
        status == IF hard_fail_reasons # <<>> \/ warnings # <<>> THEN "FAIL" ELSE "PASS"
    IN ContractEval(status, status # "FAIL", hard_fail_reasons, warnings)
EvaluateContractCompliance(response_text) ==
    LET hard_fail_reasons == IF response_text.kind = "text" THEN response_text.hard ELSE <<>>
        warnings == IF response_text.kind = "text" THEN response_text.warns
                    ELSE <<"no_tags">>
        status == IF hard_fail_reasons # <<>> THEN "FAIL"
                  ELSE IF warnings # <<>> THEN "WARN" ELSE "PASS"
    IN ContractEval(status, status # "FAIL", hard_fail_reasons, warnings)

-----------------------------------------------------------------------------
(* Stage 1 (council.py: stage1_collect_responses)                          *)

NoItem == [none |-> TRUE]

\* no call of the output parser is under way
NoCall == [fn |-> "none"]

\* persist_storage off (the default): the conversations live in _MEM, and no
\* DELETE request has been answered
InMemory == [persist_storage |-> FALSE, legacy |-> [stored |-> FALSE], deleted |-> FALSE, during |-> "none"]

\* no send_message request has reached the process
NoRequest == [at |-> "none"]

\* storage holds no conversation under the id the request names
NoConversation == [stored |-> FALSE]

Stage1Entry(m, response, ev, synthetic) ==
    [model |-> m, response |-> response, contract_eval |-> ev, synthetic |-> synthetic]

\* "(No response from model.)": 25 characters, no prohibited phrase
SyntheticResponse == ResponseText(<<>>, <<>>, FALSE, TRUE)

SyntheticEntry(m) ==
    Stage1Entry(m, SyntheticResponse,
                ContractEval("FAIL", FALSE, <<"Empty response">>, <<>>), TRUE)

\* models = [m for m in DEFAULT_STAGE1_MODELS if m]
Stage1Models(c) == SelectSeq(c.stage1, LAMBDA m : m # NoModel)

\* _try_once of Stage 1, for a reply that does not raise: an entry or None
Stage1TryOnce(m, reply) ==
    LET out0 == ChatText(reply)
        out == IF LooksLikeProviderId(out0) THEN EmptyText ELSE out0
    IN IF ~NonEmpty(out) THEN NoItem
       ELSE Stage1Entry(m, out, EvaluateContractCompliance(out), FALSE)

\* A run_one task of Stage 1: where it is, the value it returned, and
\* (history) whether it caught an exception of a chat call and the number of
\* chat calls it has started
GenTask(m, at, item, caught, ncalls) ==
    [m |-> m, at |-> at, item |-> item, caught |-> caught, ncalls |-> ncalls]

\* the gather of Stage 1 starts one run_one per model; each runs to its first
\* chat call
Stage1Start(c) == [i \in 1..Len(Stage1Models(c)) |-> GenTask(Stage1Models(c)[i], "try1", NoItem, FALSE, 1)]

Finished1(i) ==
    /\ order1' = Append(order1, i)

\* A reply to the first _try_once of run_one(m)
GenReply1(i) ==
    /\ pc = "stage1"
    /\ i \in DOMAIN gen
    /\ gen[i].at = "try1"
    /\ \E reply \in cfg.gen_replies :
         LET m == gen[i].m
             r == IF reply.kind = "exc" THEN NoItem ELSE Stage1TryOnce(m, reply)
         IN IF reply.kind = "exc"
            THEN /\ errors1' = DictSet(errors1, m, "exception")
                 /\ IF StartsWithGoogle(m)
                    THEN /\ gen' = [gen EXCEPT ![i].at = "sleep_x", ![i].caught = TRUE]
                         /\ UNCHANGED order1
                    ELSE /\ gen' = [gen EXCEPT ![i].at = "done", ![i].caught = TRUE]
                         /\ Finished1(i)
            ELSE IF r # NoItem
            THEN /\ gen' = [gen EXCEPT ![i] = GenTask(m, "done", r, gen[i].caught, gen[i].ncalls)]
                 /\ Finished1(i)
                 /\ UNCHANGED errors1
            ELSE IF StartsWithGoogle(m)
            THEN /\ gen' = [gen EXCEPT ![i].at = "sleep_2"]
                 /\ UNCHANGED <<errors1, order1>>
            ELSE /\ errors1' = DictSet(errors1, m, "Empty response")
                 /\ gen' = [gen EXCEPT ![i].at = "done"]
                 /\ Finished1(i)
    /\ UNCHANGED <<parser, store, api, convo, cfg, contract_stack, contract_ids, pc, stage1_results, jud, errors2, stage2_results,
                   label_to_model, aggregate_rankings, s3, stage3_result,
                   STAGE1_LAST_ERRORS, STAGE2_LAST_ERRORS, raised>>

\* asyncio.sleep(0.15) returns and the retry call starts
GenWake(i) ==
    /\ pc = "stage1"
    /\ i \in DOMAIN gen
    /\ gen[i].at \in {"sleep_2", "sleep_x"}
    /\ gen' = [gen EXCEPT ![i].at = IF gen[i].at = "sleep_2" THEN "try2" ELSE "try_x",
                           ![i].ncalls = gen[i].ncalls + 1]
    /\ UNCHANGED <<parser, store, api, convo, cfg, contract_stack, contract_ids, pc, errors1, stage1_results, jud, errors2, stage2_results,
                   label_to_model, aggregate_rankings, s3, stage3_result,
                   STAGE1_LAST_ERRORS, STAGE2_LAST_ERRORS, raised, order1>>

\* A reply to the retry in the try block (google/ only, after an empty first try)
GenReply2(i) ==
    /\ pc = "stage1"
    /\ i \in DOMAIN gen
    /\ gen[i].at = "try2"
    /\ \E reply \in cfg.gen_replies :
         LET m == gen[i].m
             r == IF reply.kind = "exc" THEN NoItem ELSE Stage1TryOnce(m, reply)
         IN IF reply.kind = "exc"
            THEN \* the retry raised inside the try block: the handler runs, and
                 \* m is a google/ model, so the handler retries once more
                 /\ errors1' = DictSet(errors1, m, "exception")
                 /\ gen' = [gen EXCEPT ![i].at = "sleep_x", ![i].caught = TRUE]
                 /\ UNCHANGED order1
            ELSE IF r # NoItem
            THEN /\ gen' = [gen EXCEPT ![i] = GenTask(m, "done", r, gen[i].caught, gen[i].ncalls)]
                 /\ Finished1(i)
                 /\ UNCHANGED errors1
            ELSE /\ errors1' = DictSet(errors1, m, "Empty response")
                 /\ gen' = [gen EXCEPT ![i].at = "done"]
                 /\ Finished1(i)
    /\ UNCHANGED <<parser, store, api, convo, cfg, contract_stack, contract_ids, pc, stage1_results, jud, errors2, stage2_results,
                   label_to_model, aggregate_rankings, s3, stage3_result,
                   STAGE1_LAST_ERRORS, STAGE2_LAST_ERRORS, raised>>

\* A reply to the retry in the except handler (google/ only)
GenReplyX(i) ==
    /\ pc = "stage1"
    /\ i \in DOMAIN gen
    /\ gen[i].at = "try_x"
    /\ \E reply \in cfg.gen_replies :
         LET m == gen[i].m
             r == IF reply.kind = "exc" THEN NoItem ELSE Stage1TryOnce(m, reply)
         IN /\ IF reply.kind = "exc"
               THEN /\ errors1' = DictSet(errors1, m, "exception2")
                    /\ gen' = [gen EXCEPT ![i].at = "done", ![i].caught = TRUE]
               ELSE IF r # NoItem
               THEN /\ errors1' = DictPop(errors1, m)
                    /\ gen' = [gen EXCEPT ![i] = GenTask(m, "done", r, gen[i].caught, gen[i].ncalls)]
               ELSE /\ gen' = [gen EXCEPT ![i].at = "done"]
                    /\ UNCHANGED errors1
            /\ Finished1(i)
    /\ UNCHANGED <<parser, store, api, convo, cfg, contract_stack, contract_ids, pc, stage1_results, jud, errors2, stage2_results,
                   label_to_model, aggregate_rankings, s3, stage3_result,
                   STAGE1_LAST_ERRORS, STAGE2_LAST_ERRORS, raised>>

\* asyncio.gather: the results in the order of the awaitables
GatherAsCompleted(tasks, completed) == [k \in 1..Len(completed) |-> tasks[completed[k]].item]
GatherResults(tasks, completed) == [k \in 1..Len(tasks) |-> tasks[k].item]

\* the gather is over when every task has returned
AllReturned(tasks) == \A k \in DOMAIN tasks : tasks[k].at = "done"

\* done = await asyncio.gather(*[run_one(m) for m in models])
Stage1GatheredEarly(tasks) == \E k \in DOMAIN tasks : tasks[k].at = "done"
Stage1Gathered(tasks) == AllReturned(tasks)

\* for m, item in zip(models, done): the item, or the synthetic placeholder
Stage1Results(models, done) ==
    [k \in 1..(IF Len(models) <= Len(done) THEN Len(models) ELSE Len(done)) |->
        IF done[k] # NoItem THEN done[k] ELSE SyntheticEntry(models[k])]

RealCount(results) == Cardinality({k \in DOMAIN results : ~results[k].synthetic})

\* real_count == 0 and errors
Stage1AnyFailed(results, errors) == errors # EmptyDict
Stage1AllFailed(results, errors) == RealCount(results) = 0 /\ errors # EmptyDict

\* The rest of stage1_collect_responses once the gather returns
Stage1Join ==
    /\ pc = "stage1"
    /\ Stage1Gathered(gen)
    /\ LET results == Stage1Results(Stage1Models(cfg), GatherResults(gen, order1))
       IN /\ stage1_results' = results
          /\ STAGE1_LAST_ERRORS' = errors1
          /\ IF Stage1AllFailed(results, errors1)
             THEN /\ raised' = "Stage1AllFailed"
                  /\ pc' = "failed"
             ELSE /\ pc' = "stage1_returned"
                  /\ UNCHANGED raised
    /\ UNCHANGED <<parser, store, api, convo, cfg, contract_stack, contract_ids, gen, errors1, jud, errors2, stage2_results,
                   label_to_model, aggregate_rankings, s3, stage3_result,
                   STAGE2_LAST_ERRORS, order1>>

-----------------------------------------------------------------------------
(* Stage 2: the repair ladder of one judge                                 *)
(* (council.py: stage2_collect_rankings.run_one)                           *)

\* _dedupe_preserve_order([m for m in DEFAULT_STAGE2_MODELS if m])
KeepRepeats(items) == SelectSeq(items, LAMBDA x : x # NoModel)
DedupePreserveOrder(items) == Dedupe(SelectSeq(items, LAMBDA x : x # NoModel))

Stage2Models(c) == DedupePreserveOrder(c.stage2)

\* _label_responses: label_to_model of the Stage-1 list (r.get("model") is never
\* empty for an entry of Stage 1)
LabelResponses(results) == [l \in {LabelAt(k) : k \in 1..Len(results)} |->
                               results[CHOOSE k \in 1..Len(results) : LabelAt(k) = l].model]

\* labels = list(label_to_model.keys()): the labels in insertion order
LabelsOf(results) == [k \in 1..Len(results) |-> LabelAt(k)]

\* responses_by_label of run_one
ResponsesByLabel(results) == [l \in {LabelAt(k) : k \in 1..Len(results)} |->
                                 results[CHOOSE k \in 1..Len(results) : LabelAt(k) = l].response]

NoEntry == [none |-> TRUE]

\* A Stage-2 entry; `from` is a history field: the attempt it was built from
Stage2Entry(m, ranking, parsed, fix, partial, reason, from) ==
    [model |-> m, ranking |-> ranking, parsed_ranking |-> parsed,
     format_fix_used |-> fix, partial |-> partial, partial_reason |-> reason,
     adjudicator |-> FALSE, from |-> from]

\* _canonical_default
CanonicalDefault(order) ==
    <<CritLineRec("Response A", PlaceholderLine), CritLineRec("Response B", PlaceholderLine),
      CritLineRec("Response C", PlaceholderLine), CritLineRec("Response D", PlaceholderLine),
      FinalLineRec(order)>>

\* _partial_fallback
PartialFallback(m, reason, labels) ==
    Stage2Entry(m, CanonicalDefault(labels), labels, TRUE, TRUE, reason, "fallback")

\* A run_one task: the attempt it is at, where in _call_with_google_retry it
\* is suspended, the verdicts of the attempts made so far (history), the
\* number of chat calls started (history), and the entry it returned
JudgeTask(m, at, sub, hist, ncalls, entry) ==
    [m |-> m, at |-> at, sub |-> sub, hist |-> hist, ncalls |-> ncalls, item |-> entry]

NewJudgeTask(m) == JudgeTask(m, "A0", "call", <<>>, 1, NoEntry)

NoErr == [mode |-> "none", val |-> ""]
SetErr(v) == [mode |-> "set", val |-> v]          \* errors[m] = v
DefaultErr(v) == [mode |-> "default", val |-> v]  \* errors[m] = errors.get(m) or v

ApplyErr(errors, m, e) ==
    IF e.mode = "set" THEN DictSet(errors, m, e.val)
    ELSE IF e.mode = "default" /\ m \notin DOMAIN errors THEN DictSet(errors, m, e.val)
    ELSE errors

Step(task, err) == [task |-> task, err |-> err]

Returned(task, hist, entry, err) ==
    Step([task EXCEPT !.at = "done", !.sub = "done", !.hist = hist, !.item = entry], err)

NextAttemptAgain(task, hist, at) == Step([task EXCEPT !.sub = "call", !.hist = hist, !.ncalls = task.ncalls + 1], NoErr)
NextAttempt(task, hist, at) ==
    Step([task EXCEPT !.at = at, !.sub = "call", !.hist = hist,
                      !.ncalls = task.ncalls + 1], NoErr)

\* the return statement shared by the attempts A0', A1 and A2
AttemptEntry(m, v, at) ==
    Stage2Entry(m, v.canonical, v.parsed, TRUE, v.partial,
                IF v.partial THEN v.reason ELSE "", at)

\* the return statement of the one-line repair A3: always partial
RepairEntryAsJudged(m, o, v) == AttemptEntry(m, v, "A3")
RepairEntry(m, o, v) ==
    Stage2Entry(m, v.canonical, v.parsed, TRUE, TRUE,
                IF v.reason # "" THEN v.reason
                ELSE IF ParseRankingFromText(o, <<>>) # <<>> THEN "repair_only_ranking"
                ELSE "repair_empty", "A3")

\* History record of one attempt: its output and verdict, or that its chat call
\* raised
Attempt(at, out, ok, partial, exc) ==
    [at |-> at, out |-> out, ok |-> ok, partial |-> partial, exc |-> exc]

\* if parsed_ok and (not partial_ok): attempt A0 is returned
A0AcceptedPartial(v) == v.parsed # <<>>
A0Accepted(v) == v.parsed # <<>> /\ ~v.partial

\* What run_one does with the output o of the attempt the task is at, given
\* the verdict v of _acceptable on it
AfterVerdict(task, o, v, labels) ==
    LET ok == v.parsed # <<>>
        hist == Append(task.hist, Attempt(task.at, o, ok, v.partial, FALSE))
        m == task.m
    IN CASE task.at = "A0" ->
              IF A0Accepted(v)
              THEN Returned(task, hist,
                            Stage2Entry(m, v.canonical, v.parsed, FALSE, FALSE, "", "A0"), NoErr)
              ELSE IF ok /\ v.partial THEN NextAttempt(task, hist, "A0ev")
              ELSE NextAttempt(task, hist, "A1")
         [] task.at = "A0ev" ->
              IF ok THEN Returned(task, hist, AttemptEntry(m, v, "A0ev"), NoErr)
              ELSE NextAttempt(task, hist, "A1")
         [] task.at = "A1" ->
              IF ok THEN Returned(task, hist, AttemptEntry(m, v, "A1"), NoErr)
              ELSE NextAttempt(task, hist, "A2")
         [] task.at = "A2" ->
              IF ok THEN Returned(task, hist, AttemptEntry(m, v, "A2"), NoErr)
              ELSE NextAttempt(task, hist, "A3")
         [] OTHER ->  \* A3, the one-line repair
              IF ok /\ v.canonical # NoCanonical
              THEN Returned(task, hist, RepairEntry(m, o, v),
                            DefaultErr("repair_only_ranking (accepted; canonicalized; partial)"))
              ELSE Returned(task, hist,
                            PartialFallback(m, "stage2_failed_all_attempts", labels),
                            DefaultErr("stage2_failed_all_attempts"))

AfterAttempt(task, o, labels, responses_by_label) ==
    AfterVerdict(task, o, Acceptable(o, labels, responses_by_label), labels)

\* except Exception as e
ExceptionFallback(task, labels) ==
    Returned(task, Append(task.hist, Attempt(task.at, EmptyText, FALSE, TRUE, TRUE)),
             PartialFallback(task.m, "stage2_exception_fallback", labels), SetErr("exception"))

\* A reply to a chat call of _call_with_google_retry
LadderOutput(task, o, labels, responses_by_label) ==
    IF task.sub = "call" /\ ~NonEmpty(o) /\ StartsWithGoogle(task.m)
    THEN Step([task EXCEPT !.sub = "sleep"], NoErr)
    ELSE AfterAttempt(task, o, labels, responses_by_label)

\* o = (o or "").strip(); if _looks_like_provider_id(o): o = ""
StripOutput(o0) == IF LooksLikeProviderId(o0) THEN EmptyText ELSE o0

LadderReply(task, reply, labels, responses_by_label) ==
    IF reply.kind = "exc" THEN ExceptionFallback(task, labels)
    ELSE LadderOutput(task, StripOutput(ChatText(reply)), labels, responses_by_label)

-----------------------------------------------------------------------------
(* Rank aggregation (council.py: calculate_aggregate_rankings)             *)

\* A dict in insertion order: the keys as a sequence, the values as a function
ODict(keys, val) == [keys |-> keys, val |-> val]

EmptyODict == ODict(<<>>, <<>>)

\* stage3_select_winner: contract_evals_by_model[m] = r["contract_eval"] for each
\* Stage-1 entry in order (a key keeps its first position, and its last value)
ContractEvalsByModel(results) ==
    LET ms == [k \in 1..Len(results) |-> results[k].model]
        keys == Dedupe(SelectSeq(ms, LAMBDA m : m # NoModel))
    IN ODict(keys,
             [m \in Range(keys) |->
                 results[CHOOSE k \in 1..Len(results) :
                            /\ results[k].model = m
                            /\ \A k2 \in 1..Len(results) : results[k2].model = m => k2 <= k]
                        .contract_eval])

\* disqualified_models: the models whose eval has eligible False, in order
DisqualifiedModels(evals) ==
    SelectSeq(evals.keys, LAMBDA m : evals.val[m].eligible = FALSE)

DisqualifyReasons(ev) ==
    IF ev.hard_fail_reasons # <<>> THEN ev.hard_fail_reasons ELSE <<"Hard FAIL">>

\* a voter is skipped when synthetic or partial, or when it ranks nothing
VoterSkippedWhenEmpty(voter) == voter.parsed_ranking = <<>>
VoterSkipped(voter) == voter.partial \/ voter.parsed_ranking = <<>>

\* ordered_models of one voter
OrderedModels(voter, l2m) ==
    LET labs == SelectSeq(voter.parsed_ranking,
                          LAMBDA l : l \in DOMAIN l2m /\ l2m[l] # NoModel)
    IN [k \in 1..Len(labs) |-> l2m[labs[k]]]

\* the <<model, rank>> pairs one voter adds to rank_sums and rank_counts
VoterRanksOfAll(voter, l2m, disq) ==
    IF VoterSkipped(voter) THEN <<>>
    ELSE LET om == OrderedModels(voter, l2m)
         IN [k \in 1..Len(om) |-> <<om[k], k>>]
VoterRanks(voter, l2m, disq) ==
    IF VoterSkipped(voter) THEN <<>>
    ELSE LET om == OrderedModels(voter, l2m)
             pairs == [k \in 1..Len(om) |-> <<om[k], k>>]
         IN SelectSeq(pairs, LAMBDA pr : pr[1] \notin Range(disq))

RECURSIVE AllRanks(_, _, _)
AllRanks(stage2, l2m, disq) ==
    IF stage2 = <<>> THEN <<>>
    ELSE VoterRanks(stage2[1], l2m, disq) \o AllRanks(Tail(stage2), l2m, disq)

Aggregate(m, num, den, count, disqualified, reasons) ==
    [model |-> m, average_rank |-> [num |-> num, den |-> den],
     rankings_count |-> count, disqualified |-> disqualified,
     disqualify_reasons |-> reasons]

DISQUALIFIED_RANK == 9998
UNRANKED_RANK == 9999

\* the sort key (bool(disqualified), float(average_rank)) as a strict order
AggKeyLess(a, b) ==
    \/ ~a.disqualified /\ b.disqualified
    \/ /\ a.disqualified = b.disqualified
       /\ a.average_rank.num * b.average_rank.den < b.average_rank.num * a.average_rank.den

RECURSIVE InsertSorted(_, _)
\* stable: x goes after every element whose key is not greater
InsertSorted(sorted, x) ==
    IF sorted = <<>> THEN <<x>>
    ELSE IF AggKeyLess(x, sorted[Len(sorted)])
         THEN Append(InsertSorted(SubSeq(sorted, 1, Len(sorted) - 1), x), sorted[Len(sorted)])
    ELSE Append(sorted, x)

RECURSIVE StableSort(_)
StableSort(s) ==
    IF s = <<>> THEN <<>>
    ELSE InsertSorted(StableSort(SubSeq(s, 1, Len(s) - 1)), s[Len(s)])

\* the labels of label_to_model in insertion order
LabelKeys(l2m) == SelectSeq(LetterAt, LAMBDA x : LabelFor[x] \in DOMAIN l2m)

CalculateAggregateRankings(stage2, l2m, evals) ==
    LET disq == DisqualifiedModels(evals)
        ranks == AllRanks(stage2, l2m, disq)
        ranked == Dedupe([k \in 1..Len(ranks) |-> ranks[k][1]])
        sum(m) == SumSeq([k \in 1..Len(ranks) |-> IF ranks[k][1] = m THEN ranks[k][2] ELSE 0])
        cnt(m) == Cardinality({k \in 1..Len(ranks) : ranks[k][1] = m})
        voted == [k \in 1..Len(ranked) |->
                     Aggregate(ranked[k], sum(ranked[k]), cnt(ranked[k]), cnt(ranked[k]),
                               FALSE, <<>>)]
        out == [k \in 1..Len(disq) |->
                   Aggregate(disq[k], DISQUALIFIED_RANK, 1, cnt(disq[k]), TRUE,
                             DisqualifyReasons(evals.val[disq[k]]))]
        have == Range(ranked) \cup Range(disq)
        lks == LabelKeys(l2m)
        rest == Dedupe(SelectSeq([k \in 1..Len(lks) |-> l2m[LabelFor[lks[k]]]],
                                 LAMBDA m : m \notin have))
        unranked == [k \in 1..Len(rest) |->
                        Aggregate(rest[k], UNRANKED_RANK, 1, 0, rest[k] \in Range(disq),
                                  IF rest[k] \in Range(disq)
                                  THEN evals.val[rest[k]].hard_fail_reasons ELSE <<>>)]
    IN StableSort(voted \o out \o unranked)

-----------------------------------------------------------------------------
(* Stage 2 (council.py: stage2_collect_rankings)                           *)

Stage1Vars == <<gen, errors1, stage1_results, STAGE1_LAST_ERRORS>>
Stage3Vars == <<aggregate_rankings, s3, stage3_result>>

\* stage2_collect_rankings up to its gather: one run_one per judge, each
\* running to its first chat call
Stage2Start ==
    /\ pc = "stage1_returned"
    /\ pc' = "stage2"
    /\ label_to_model' = LabelResponses(stage1_results)
    /\ jud' = [i \in 1..Len(Stage2Models(cfg)) |-> NewJudgeTask(Stage2Models(cfg)[i])]
    /\ errors2' = EmptyDict
    /\ order1' = <<>>
    /\ UNCHANGED <<parser, store, api, convo, cfg, contract_stack, contract_ids, stage2_results, STAGE2_LAST_ERRORS, raised>>
    /\ UNCHANGED Stage1Vars /\ UNCHANGED Stage3Vars

\* A reply to the chat call a judge's (or the adjudicator's) run_one awaits
JudgeReply(i) ==
    /\ pc \in {"stage2", "adjudicate"}
    /\ i \in DOMAIN jud
    /\ jud[i].sub \in {"call", "retry"}
    /\ \E reply \in (IF pc = "adjudicate" THEN cfg.adjudicator_replies
                      ELSE cfg.judge_replies) :
         \E st \in {LadderReply(jud[i], reply, LabelsOf(stage1_results),
                                ResponsesByLabel(stage1_results))} :
            /\ jud' = [jud EXCEPT ![i] = st.task]
            /\ errors2' = ApplyErr(errors2, jud[i].m, st.err)
    /\ UNCHANGED <<parser, store, api, convo, cfg, contract_stack, contract_ids, pc, stage2_results, label_to_model, STAGE2_LAST_ERRORS, raised, order1>>
    /\ UNCHANGED Stage1Vars /\ UNCHANGED Stage3Vars

\* asyncio.sleep(0.25) returns and the retry call of a google/ judge starts
JudgeWake(i) ==
    /\ pc \in {"stage2", "adjudicate"}
    /\ i \in DOMAIN jud
    /\ jud[i].sub = "sleep"
    /\ jud' = [jud EXCEPT ![i].sub = "retry", ![i].ncalls = jud[i].ncalls + 1]
    /\ UNCHANGED <<parser, store, api, convo, cfg, contract_stack, contract_ids, pc, errors2, stage2_results, label_to_model,
                   STAGE2_LAST_ERRORS, raised, order1>>
    /\ UNCHANGED Stage1Vars /\ UNCHANGED Stage3Vars

\* results = await asyncio.gather(*[run_one(m) for m in models])
Stage2Gathered(tasks) == AllReturned(tasks)

STAGE2_ADJUDICATE_MIN_NONPARTIAL == 3
\* the module reads the environment's value (cfg.adjudicate_min_top1_votes)
\* and then assigns 0
STAGE2_ADJUDICATE_MIN_TOP1_VOTES == 0

\* _top1_votes: the entries that vote, as the sequence of their top-1 labels
Top1Votes(rs, labels) ==
    LET voters == SelectSeq(rs, LAMBDA x : /\ ~x.partial
                                           /\ x.parsed_ranking # <<>>
                                           /\ x.parsed_ranking[1] \in Range(labels))
    IN [k \in 1..Len(voters) |-> voters[k].parsed_ranking[1]]

VoteCount(votes, label) == Cardinality({k \in 1..Len(votes) : votes[k] = label})

\* top_votes: the count of the plurality label
TopVotes(votes) ==
    CHOOSE n \in 0..Len(votes) :
        /\ \A l \in Range(votes) : VoteCount(votes, l) <= n
        /\ (votes = <<>> /\ n = 0) \/ (\E l \in Range(votes) : VoteCount(votes, l) = n)

RequiredTwo(vote_total) == 2
Required(vote_total) ==
    IF STAGE2_ADJUDICATE_MIN_TOP1_VOTES > 0 THEN STAGE2_ADJUDICATE_MIN_TOP1_VOTES
    ELSE IF vote_total >= 4 THEN 3 ELSE 2

\* the consensus gate
ShouldAdjudicate(c, rs, labels) ==
    LET votes == Top1Votes(rs, labels)
    IN /\ c.adjudicate_enabled
       /\ Len(votes) >= STAGE2_ADJUDICATE_MIN_NONPARTIAL
       /\ Cardinality(Range(votes)) >= 2
       /\ TopVotes(votes) < Required(Len(votes))

\* the adjudicator model: the designated one, or the first fallback that is
\* not a judge
AdjudicatorModel(c, models) ==
    LET free == SelectSeq(c.adjudicator_fallbacks, LAMBDA fm : fm \notin Range(models))
    IN IF c.adjudicator \in Range(models) /\ free # <<>> THEN free[1] ELSE c.adjudicator

AdjudicatorSuffix == "(adjudicator)"

\* the adjudicator's entry as appended to the results
AdjudicatorEntryUnsuffixed(entry, adjudicator_model, models) == [entry EXCEPT !.adjudicator = TRUE]
AdjudicatorEntry(entry, adjudicator_model, models) ==
    LET m0 == IF entry.model # NoModel THEN entry.model ELSE adjudicator_model
        m == IF m0 \in Range(models) THEN Append(m0, AdjudicatorSuffix) ELSE m0
    IN [entry EXCEPT !.adjudicator = TRUE, !.model = m]

\* stage2_collect_rankings once the judges' gather returns: the consensus
\* gate; either the adjudicator's run_one starts, or the function returns
Stage2Join ==
    /\ pc = "stage2"
    /\ Stage2Gathered(jud)
    /\ LET results == GatherResults(jud, <<>>)
           models == Stage2Models(cfg)
       IN /\ stage2_results' = results
          /\ IF ShouldAdjudicate(cfg, results, LabelsOf(stage1_results))
             THEN /\ pc' = "adjudicate"
                  /\ jud' = Append(jud, NewJudgeTask(AdjudicatorModel(cfg, models)))
                  /\ UNCHANGED STAGE2_LAST_ERRORS
             ELSE /\ pc' = "stage2_returned"
                  /\ STAGE2_LAST_ERRORS' = errors2
                  /\ UNCHANGED jud
    /\ UNCHANGED <<parser, store, api, convo, cfg, contract_stack, contract_ids, errors2, label_to_model, raised, order1>>
    /\ UNCHANGED Stage1Vars /\ UNCHANGED Stage3Vars

\* the adjudicator's run_one returned: its entry is appended, and the
\* function returns (AdjudicatorJoinOverriding returns the adjudicator's
\* entry in place of the judges')
AdjudicatorJoinOverriding ==
    /\ pc = "adjudicate"
    /\ jud[Len(jud)].sub = "done"
    /\ stage2_results' = <<AdjudicatorEntry(jud[Len(jud)].item, jud[Len(jud)].m,
                                            Stage2Models(cfg))>>
    /\ STAGE2_LAST_ERRORS' = errors2
    /\ pc' = "stage2_returned"
    /\ UNCHANGED <<parser, store, api, convo, cfg, contract_stack, contract_ids, jud, errors2, label_to_model, raised, order1>>
    /\ UNCHANGED Stage1Vars /\ UNCHANGED Stage3Vars
AdjudicatorJoin ==
    /\ pc = "adjudicate"
    /\ jud[Len(jud)].sub = "done"
    /\ stage2_results' = Append(stage2_results,
                                AdjudicatorEntry(jud[Len(jud)].item, jud[Len(jud)].m,
                                                 Stage2Models(cfg)))
    /\ STAGE2_LAST_ERRORS' = errors2
    /\ pc' = "stage2_returned"
    /\ UNCHANGED <<parser, store, api, convo, cfg, contract_stack, contract_ids, jud, errors2, label_to_model, raised, order1>>
    /\ UNCHANGED Stage1Vars /\ UNCHANGED Stage3Vars

-----------------------------------------------------------------------------
(* Stage 3 (council.py: stage3_select_winner, stage3_synthesize_final)     *)

STAGE3_HELPER_TRIGGER_CHARS == 120000

Stage3Result(m, response, ev) == [model |-> m, response |-> response, contract_eval |-> ev]

\* the result of the except branch
Stage3Failure(m) ==
    Stage3Result(m, EmptyText, [status |-> "FAIL", eligible |-> FALSE])

\* except Exception: return {...}: the function returns the failure result
Stage3ExceptPropagates(m) == [pc |-> "failed", raised |-> "ChatError", result |-> NoItem]
Stage3Except(m) == [pc |-> "done", raised |-> "none", result |-> Stage3Failure(m)]

\* len(base_chairman_prompt), whether the helper's call was made, helper_brief,
\* which chairman_prompt the chairman gets, and the draft with its evaluation
Stage3Locals(at, len, helper, helper_brief, prompt, out, ev) ==
    [at |-> at, len |-> len, helper |-> helper, helper_brief |-> helper_brief,
     prompt |-> prompt, out |-> out, ev |-> ev]

NoStage3 == Stage3Locals("none", 0, "not_called", EmptyText, "none", EmptyText, NoItem)

\* stage3_select_winner: the label map derived from the Stage-1 order
DerivedLabelToModel(results) == LabelResponses(results)

\* the lengths the assembled chairman prompt is drawn from
PromptLengths == {STAGE3_HELPER_TRIGGER_CHARS, STAGE3_HELPER_TRIGGER_CHARS + 1}

\* the condition under which the long-context helper is called
HelperDueAtTrigger(c, len) == c.helper_enabled /\ c.helper_model # NoModel /\ len >= STAGE3_HELPER_TRIGGER_CHARS
HelperDue(c, len) == c.helper_enabled /\ c.helper_model # NoModel /\ len > STAGE3_HELPER_TRIGGER_CHARS

\* stage3_select_winner and stage3_synthesize_final up to the first chat call:
\* the aggregates, the chairman prompt, and the helper's call if it is due
Stage3Start ==
    /\ pc = "stage2_returned"
    /\ aggregate_rankings' =
           CalculateAggregateRankings(stage2_results, DerivedLabelToModel(stage1_results),
                                      ContractEvalsByModel(stage1_results))
    /\ \E len \in PromptLengths :
         IF HelperDue(cfg, len)
         THEN /\ pc' = "helper"
              /\ s3' = Stage3Locals("helper", len, "called", EmptyText, "full", EmptyText, NoItem)
         ELSE /\ pc' = "chairman"
              /\ s3' = Stage3Locals("draft", len, "not_called", EmptyText, "full", EmptyText, NoItem)
    /\ UNCHANGED <<parser, store, api, convo, cfg, contract_stack, contract_ids, jud, errors2, stage2_results, label_to_model, stage3_result,
                   STAGE2_LAST_ERRORS, raised, order1>>
    /\ UNCHANGED Stage1Vars

\* A reply to the helper's call; the chairman's call starts
HelperReply ==
    /\ pc = "helper"
    /\ \E reply \in cfg.helper_replies :
         LET helper_brief == IF reply.kind = "exc" THEN EmptyText ELSE ChatText(reply)
         IN s3' = Stage3Locals("draft", s3.len, "called", helper_brief,
                               IF NonEmpty(helper_brief) THEN "shrunk" ELSE "full",
                               EmptyText, NoItem)
    /\ pc' = "chairman"
    /\ UNCHANGED <<parser, store, api, convo, cfg, contract_stack, contract_ids, jud, errors2, stage2_results, label_to_model, aggregate_rankings,
                   stage3_result, STAGE2_LAST_ERRORS, raised, order1>>
    /\ UNCHANGED Stage1Vars

\* A reply to the chairman's first call
ChairmanReply ==
    /\ pc = "chairman"
    /\ s3.at = "draft"
    /\ \E reply \in cfg.chairman_replies :
         IF reply.kind = "exc"
         THEN /\ stage3_result' = Stage3Except(cfg.chairman).result
              /\ pc' = Stage3Except(cfg.chairman).pc
              /\ raised' = Stage3Except(cfg.chairman).raised
              /\ s3' = [s3 EXCEPT !.at = "raised"]
         ELSE LET out == ChatText(reply)
                  ev == EvaluateContractCompliance(out)
              IN /\ UNCHANGED raised
                 /\ IF ev.status = "FAIL"
                    THEN /\ s3' = [s3 EXCEPT !.at = "repair", !.out = out, !.ev = ev]
                         /\ UNCHANGED <<pc, stage3_result>>
                    ELSE /\ stage3_result' = Stage3Result(cfg.chairman, out, ev)
                         /\ pc' = "done"
                         /\ s3' = [s3 EXCEPT !.at = "returned", !.out = out, !.ev = ev]
    /\ UNCHANGED <<parser, store, api, convo, cfg, contract_stack, contract_ids, jud, errors2, stage2_results, label_to_model, aggregate_rankings,
                   STAGE2_LAST_ERRORS, order1>>
    /\ UNCHANGED Stage1Vars

\* A reply to the chairman's repair call
RepairReply ==
    /\ pc = "chairman"
    /\ s3.at = "repair"
    /\ \E reply \in cfg.chairman_replies :
         IF reply.kind = "exc"
         THEN /\ stage3_result' = Stage3Except(cfg.chairman).result
              /\ pc' = Stage3Except(cfg.chairman).pc
              /\ raised' = Stage3Except(cfg.chairman).raised
              /\ s3' = [s3 EXCEPT !.at = "raised"]
         ELSE LET out2 == ChatText(reply)
              IN /\ pc' = "done"
                 /\ UNCHANGED raised
                 /\ IF NonEmpty(out2)
                    THEN /\ stage3_result' =
                               Stage3Result(cfg.chairman, out2, EvaluateContractCompliance(out2))
                         /\ s3' = [s3 EXCEPT !.at = "repaired"]
                    ELSE /\ stage3_result' = Stage3Result(cfg.chairman, s3.out, s3.ev)
                         /\ s3' = [s3 EXCEPT !.at = "kept"]
    /\ UNCHANGED <<parser, store, api, convo, cfg, contract_stack, contract_ids, jud, errors2, stage2_results, label_to_model, aggregate_rankings,
                   STAGE2_LAST_ERRORS, order1>>
    /\ UNCHANGED Stage1Vars

-----------------------------------------------------------------------------
(* The process environment: configured models and what the providers reply *)

\* the defaults of DEFAULT_STAGE1_MODELS, DEFAULT_STAGE2_MODELS and of the
\* adjudicator's fallback list
Gpt == <<"openai", "gpt-5.2">>
Gemini == <<"google", "gemini-3-pro-preview">>
Sonnet == <<"anthropic", "claude-sonnet-4.5">>
Grok == <<"x-ai", "grok-4.1-fast">>
Opus == <<"anthropic", "claude-opus-4.5">>
Gpt41 == <<"openai", "gpt-4.1">>
Haiku == <<"anthropic", "claude-haiku-3.5">>

AdjudicatorFallbacks == <<Gemini, Gpt41, Haiku>>

JudgePool == <<Gpt, Opus, Sonnet, Grok, Gemini, Haiku>>

\* generator and chairman texts
GoodResponse == ResponseText(<<>>, <<>>, FALSE, FALSE)
UntaggedResponse == ResponseText(<<>>, <<"no_tags">>, FALSE, TRUE)
ShortResponse == ResponseText(<<>>, <<"no_tags">>, TRUE, FALSE)
ProhibitedResponse == ResponseText(<<"guarantee">>, <<>>, FALSE, FALSE)

\* judge texts
AllLines(line) == [l \in {"A", "B", "C", "D"} |-> line]
GoodLine == Crit(TRUE, TRUE, FALSE, TRUE)
Ranking(order) == [k \in 1..Len(order) |-> Full(order[k])]
\* five well-formed lines with evidence, ranking the given letters
Good(order) == JudgeText(FALSE, AllLines(GoodLine), TRUE, Ranking(order))
\* well-formed lines that quote nothing from the responses
NoEvidence(order) == JudgeText(FALSE, AllLines(Crit(TRUE, TRUE, FALSE, FALSE)), TRUE, Ranking(order))
\* critiques without the Strength:/Flaw: structure
Legacy(order) == JudgeText(FALSE, AllLines(Crit(FALSE, FALSE, FALSE, TRUE)), TRUE, Ranking(order))
\* only the FINAL_RANKING line
RankOnly(order) == JudgeText(FALSE, AllLines(NoLine), TRUE, Ranking(order))
\* a chain of bare letters in running text, no FINAL_RANKING line
BareChain(order) ==
    JudgeText(FALSE, AllLines(GoodLine), FALSE, [k \in 1..Len(order) |-> Bare(order[k])])
\* text with no ranking in it
NoRanking == JudgeText(FALSE, AllLines(GoodLine), FALSE, <<Junk>>)
\* a well-formed answer wrapped in process narration
Narrated(order) == JudgeText(TRUE, AllLines(GoodLine), TRUE, Ranking(order))

Config(stage1, stage2, adjudicate_enabled, adjudicator, chairman, helper_enabled, helper_model, gen_replies, judge_replies, adjudicator_replies, chairman_replies, helper_replies) ==
    [stage1 |-> stage1, stage2 |-> stage2, adjudicate_enabled |-> adjudicate_enabled,
     adjudicator |-> adjudicator, adjudicator_fallbacks |-> AdjudicatorFallbacks,
     adjudicate_min_top1_votes |-> 0,
     chairman |-> chairman, helper_enabled |-> helper_enabled,
     helper_model |-> helper_model, gen_replies |-> gen_replies,
     judge_replies |-> judge_replies, adjudicator_replies |-> adjudicator_replies,
     chairman_replies |-> chairman_replies,
     helper_replies |-> helper_replies]

\* number of judges of the disagreeing council
NumJudges == 3

ChairmanReplies == {ExcReply, EmptyText, PidReply, GoodResponse, ProhibitedResponse}

\* three generators and NumJudges judges whose well-formed answers may
\* disagree on the top label
DisagreeingCouncil ==
    Config(<<Gpt, Sonnet, Grok>>, SubSeq(JudgePool, 1, NumJudges), TRUE, Opus, Opus,
           TRUE, Gemini, {ExcReply, GoodResponse},
           {ExcReply, Good(<<"A", "B", "C">>), Good(<<"B", "A", "C">>),
            Good(<<"C", "A", "B">>)},
           {ExcReply, EmptyText, NoEvidence(<<"B", "A", "C">>), Good(<<"A", "C", "B">>)},
           ChairmanReplies, {ExcReply, EmptyText, GoodResponse})

\* a google/ generator and judge with unreliable providers
FlakyCouncil ==
    Config(<<Gemini, NoModel, Gpt>>, <<Gemini, NoModel, Gemini>>, TRUE, Opus, Opus, FALSE, Gemini,
           {ExcReply, EmptyText, PidReply, ProhibitedResponse, UntaggedResponse},
           {ExcReply, EmptyText, PidReply, NoRanking, RankOnly(<<"B", "A">>),
            Narrated(<<"A", "B">>)},
           {ExcReply},
           {ExcReply, EmptyText, GoodResponse}, {GoodResponse})

Configs == {DisagreeingCouncil, FlakyCouncil}

-----------------------------------------------------------------------------
(* Contract stacks (contracts.py: parse_contract_ids)                      *)

\* FACTORY_TRUTH_V1.contract_id, and the product addendum's id
FACTORY_TRUTH_V1 == "factory_truth_v1"
ELDERCARE_SAFETY_V1 == "eldercare_safety_v1"

\* contract_stack: Optional[str]; a string is the list of the pieces between
\* its commas (str.split(",") of the empty string is one empty piece)
NoStack == [given |-> FALSE, pieces |-> <<>>]
StackOf(pieces) == [given |-> TRUE, pieces |-> pieces]

\* c.strip()
Strip(c) ==
    CASE c = " factory_truth_v1 " -> "factory_truth_v1"
      [] c = " " -> ""
      [] OTHER -> c

\* bool(contract_stack): None and "" are false
Truthy(stack) == stack.given /\ stack.pieces # <<"">>

\* [c.strip() for c in contract_stack.split(",") if c.strip()]
RECURSIVE StrippedIds(_)
StrippedIds(pieces) ==
    IF pieces = <<>> THEN <<>>
    ELSE IF Strip(Head(pieces)) = "" THEN StrippedIds(Tail(pieces))
         ELSE <<Strip(Head(pieces))>> \o StrippedIds(Tail(pieces))

\* [c for c in ids if c != base]
RECURSIVE Without(_, _)
Without(ids, base) ==
    IF ids = <<>> THEN <<>>
    ELSE IF Head(ids) = base THEN Without(Tail(ids), base)
         ELSE <<Head(ids)>> \o Without(Tail(ids), base)

\* the else branch: move the base to the front (BaseLeftInPlace leaves it where
\* the input had it)
BaseLeftInPlace(ids) == ids
BaseMovedToFront(ids) == <<FACTORY_TRUTH_V1>> \o Without(ids, FACTORY_TRUTH_V1)

parse_contract_ids(stack) ==
    LET ids == IF Truthy(stack) THEN StrippedIds(stack.pieces) ELSE <<>>
    IN IF FACTORY_TRUTH_V1 \notin Range(ids)
       THEN <<FACTORY_TRUTH_V1>> \o ids
       ELSE BaseMovedToFront(ids)

\* one call of parse_contract_ids on the request's contract_stack
ParseContractIds ==
    /\ contract_ids = <<>>
    /\ contract_ids' = parse_contract_ids(contract_stack)
    /\ UNCHANGED <<parser, store, api, convo, cfg, contract_stack, pc, gen, errors1, stage1_results, jud, errors2,
                   stage2_results, label_to_model, aggregate_rankings, s3, stage3_result,
                   STAGE1_LAST_ERRORS, STAGE2_LAST_ERRORS, raised, order1>>

-----------------------------------------------------------------------------
(* One run of the council: stage1_collect_responses, then                  *)
(* stage2_collect_rankings, then stage3_select_winner                      *)

Idle(c) ==
    /\ cfg = c
    /\ contract_stack = NoStack
    /\ contract_ids = <<>>
    /\ parser = NoCall
    /\ store = InMemory
    /\ api = NoRequest
    /\ convo = NoConversation
    /\ pc = "idle"
    /\ gen = <<>>
    /\ errors1 = EmptyDict
    /\ stage1_results = <<>>
    /\ jud = <<>>
    /\ errors2 = EmptyDict
    /\ stage2_results = <<>>
    /\ label_to_model = EmptyDict
    /\ aggregate_rankings = <<>>
    /\ s3 = NoStage3
    /\ stage3_result = NoItem
    /\ STAGE1_LAST_ERRORS = EmptyDict
    /\ STAGE2_LAST_ERRORS = EmptyDict
    /\ raised = "none"
    /\ order1 = <<>>

Init == \E c \in Configs : Idle(c)

\* stage1_collect_responses is called: the gather starts the generator tasks
Stage1Call ==
    /\ pc = "idle"
    /\ pc' = "stage1"
    /\ gen' = Stage1Start(cfg)
    /\ errors1' = EmptyDict
    /\ UNCHANGED <<parser, store, api, convo, cfg, contract_stack, contract_ids, stage1_results, jud, errors2, stage2_results, label_to_model,
                   aggregate_rankings, s3, stage3_result, STAGE1_LAST_ERRORS,
                   STAGE2_LAST_ERRORS, raised, order1>>

Stage1Next ==
    \/ Stage1Call
    \/ \E i \in DOMAIN gen : GenReply1(i)
    \/ \E i \in DOMAIN gen : GenWake(i)
    \/ \E i \in DOMAIN gen : GenReply2(i)
    \/ \E i \in DOMAIN gen : GenReplyX(i)
    \/ Stage1Join

Stage2Next ==
    \/ Stage2Start
    \/ \E i \in DOMAIN jud : JudgeReply(i)
    \/ \E i \in DOMAIN jud : JudgeWake(i)
    \/ Stage2Join
    \/ AdjudicatorJoin

Stage3Next ==
    \/ Stage3Start
    \/ HelperReply
    \/ ChairmanReply
    \/ RepairReply

Next == Stage1Next \/ Stage2Next \/ Stage3Next

Spec == Init /\ [][Next]_vars

-----------------------------------------------------------------------------
(* Stage 1 alone, over every list of configured generator slots            *)

\* number of configured generator slots
MaxSlots == 2

SlotLists == UNION {[1..n -> {NoModel, Gpt, Gemini}] : n \in 0..MaxSlots}

Stage1Council(slots) ==
    Config(slots, <<>>, FALSE, Opus, Opus, FALSE, Gemini,
           {ExcReply, EmptyText, PidReply, GoodResponse, ProhibitedResponse},
           {ExcReply}, {ExcReply}, {ExcReply}, {ExcReply})

InitStage1 == \E slots \in SlotLists : Idle(Stage1Council(slots))

SpecStage1 == InitStage1 /\ [][Stage1Next]_vars

\* the generator slots that are configured (non-empty), in configured order
ConfiguredGenerators ==
    LET idx == {k \in 1..Len(cfg.stage1) : cfg.stage1[k] # NoModel}
        nth(k) == CHOOSE j \in idx : Cardinality({j2 \in idx : j2 <= j}) = k
    IN [k \in 1..Cardinality(idx) |-> cfg.stage1[nth(k)]]

\* C1: when stage1_collect_responses returns, its list has exactly one entry
\* per configured non-empty generator, in the configured order: entry k
\* carries the k-th configured model and is what the k-th task produced (its
\* response, or the synthetic placeholder when it failed or came back
\* empty), whatever the order in which the tasks completed.
C1_ConfiguredOrder ==
    pc = "stage1_returned" =>
        /\ Len(stage1_results) = Len(ConfiguredGenerators)
        /\ \A k \in 1..Len(stage1_results) :
             /\ stage1_results[k].model = ConfiguredGenerators[k]
             /\ gen[k].m = ConfiguredGenerators[k]
             /\ IF gen[k].item # NoItem
                THEN stage1_results[k] = gen[k].item /\ ~stage1_results[k].synthetic
                ELSE stage1_results[k] = SyntheticEntry(ConfiguredGenerators[k])

\* Stage 1 returned two entries whose tasks completed in the reverse of the
\* configured order, the first real and the second a placeholder
C1_Witness ==
    /\ pc = "stage1_returned"
    /\ order1 = <<2, 1>>
    /\ Len(stage1_results) = 2
    /\ stage1_results[1].model # stage1_results[2].model
    /\ ~stage1_results[1].synthetic
    /\ stage1_results[2].synthetic

AllSynthetic == \A k \in 1..Len(stage1_results) : stage1_results[k].synthetic

CaughtException == \E k \in 1..Len(gen) : gen[k].caught

Stage1Over == pc \in {"failed", "stage1_returned"} /\ stage2_results = <<>> /\ jud = <<>>

\* C8 as stated: Stage 1 raises the all-failed error if and only if every
\* entry is synthetic and at least one chat call raised a caught exception.
C8_Original ==
    Stage1Over => ((raised = "Stage1AllFailed") <=> (AllSynthetic /\ CaughtException))

\* C8 as the code behaves: Stage 1 raises the all-failed error if and only if every
\* entry is synthetic and at least one generator is configured; a generator
\* that merely returns empty or provider-id text is recorded as an error
\* ("Empty response") just as one whose call raised.
C8_RaisesIffNoRealEntry ==
    Stage1Over =>
        /\ (raised = "Stage1AllFailed") <=> (AllSynthetic /\ ConfiguredGenerators # <<>>)
        /\ raised \in {"none", "Stage1AllFailed"}
        /\ (raised = "Stage1AllFailed") <=> (pc = "failed")

\* Stage 1 raised although no chat call raised: both generators came back empty
C8_Witness ==
    /\ pc = "failed"
    /\ raised = "Stage1AllFailed"
    /\ Len(gen) = 2
    /\ ~CaughtException

-----------------------------------------------------------------------------
(* Stage 2 on a Stage-1 list: the repair ladder with every kind of output  *)

\* The state in which stage1_collect_responses has returned, each generator
\* task having returned the given item after one chat call
Stage1Returned(c, items) ==
    /\ cfg = c
    /\ contract_stack = NoStack
    /\ contract_ids = <<>>
    /\ parser = NoCall
    /\ store = InMemory
    /\ api = NoRequest
    /\ convo = NoConversation
    /\ pc = "stage1_returned"
    /\ gen = [k \in 1..Len(items) |-> GenTask(Stage1Models(c)[k], "done", items[k], FALSE, 1)]
    /\ errors1 = [m \in {Stage1Models(c)[k] : k \in {j \in 1..Len(items) : items[j] = NoItem}}
                    |-> "Empty response"]
    /\ stage1_results = Stage1Results(Stage1Models(c), items)
    /\ jud = <<>>
    /\ errors2 = EmptyDict
    /\ stage2_results = <<>>
    /\ label_to_model = EmptyDict
    /\ aggregate_rankings = <<>>
    /\ s3 = NoStage3
    /\ stage3_result = NoItem
    /\ STAGE1_LAST_ERRORS = errors1
    /\ STAGE2_LAST_ERRORS = EmptyDict
    /\ raised = "none"
    /\ order1 = [k \in 1..Len(items) |-> k]

\* the outputs a judge may give at each attempt
LadderReplies ==
    {ExcReply, EmptyText, NoRanking, NoEvidence(<<"A", "B", "C">>), Good(<<"C", "A", "B">>),
     Good(<<"E", "F">>)}

LadderCouncil(stage2, judge_replies, adjudicator_replies) ==
    Config(<<Gpt, Sonnet, Grok>>, stage2, TRUE, Opus, Opus, FALSE, Gemini,
           {EmptyText, GoodResponse}, judge_replies, adjudicator_replies,
           {ExcReply}, {ExcReply})

LadderCouncils ==
    {LadderCouncil(<<Gemini, NoModel, Gemini>>, LadderReplies, {ExcReply}),
     LadderCouncil(<<Gpt, Sonnet, Gpt>>, LadderReplies \ {Good(<<"E", "F">>)}, {ExcReply}),
     LadderCouncil(<<Gpt, Opus, Sonnet>>,
                   {Good(<<"A", "B", "C">>), Good(<<"B", "A", "C">>), Good(<<"C", "A", "B">>)},
                   LadderReplies)}

LadderInputs ==
    {<<Stage1TryOnce(Gpt, GoodResponse), Stage1TryOnce(Sonnet, GoodResponse),
       Stage1TryOnce(Grok, GoodResponse)>>,
     <<Stage1TryOnce(Gpt, GoodResponse), NoItem, Stage1TryOnce(Grok, GoodResponse)>>}

InitLadder == \E c \in LadderCouncils : \E items \in LadderInputs : Stage1Returned(c, items)

SpecLadder == InitLadder /\ [][Stage2Next]_vars

\* --- claim vocabulary ---

IsPermutation(s, labels) ==
    /\ Len(s) = Len(labels)
    /\ Range(s) = Range(labels)
    /\ \A j, k \in DOMAIN s : s[j] = s[k] => j = k

First(S) == CHOOSE k \in S : \A j \in S : k <= j

\* the run_one tasks of Stage 2 that have returned
Returned2 == {i \in DOMAIN jud : jud[i].sub = "done"}

\* one of the chat calls of task i raised
Raised2(i) == \E k \in DOMAIN jud[i].hist : jud[i].hist[k].exc

\* the attempts a task made whose output was acceptable
AcceptableAttempts(h) == {k \in DOMAIN h : h[k].ok}
NonPartialAttempts(h) == {k \in DOMAIN h : h[k].ok /\ ~h[k].partial}

\* the acceptable attempts other than an A0 classified partial
ReturnableAttempts(h) == {k \in DOMAIN h : h[k].ok /\ (h[k].at # "A0" \/ ~h[k].partial)}

IsFallback(entry) ==
    /\ entry.from = "fallback"
    /\ entry.partial
    /\ entry.parsed_ranking = LabelsOf(stage1_results)
    /\ entry.ranking = CanonicalDefault(LabelsOf(stage1_results))

\* the distinct non-empty configured judge ids, by first occurrence
ConfiguredJudges ==
    LET s == cfg.stage2
        idx == {k \in DOMAIN s : s[k] # NoModel /\ \A j \in 1..(k - 1) : s[j] # s[k]}
    IN [n \in 1..Cardinality(idx) |->
           s[CHOOSE k \in idx : Cardinality({j \in idx : j < k}) = n - 1]]

\* C2: every Stage-2 entry with partial = false, whether returned by a judge's
\* ladder (from any attempt) or by the adjudicator's, and every such entry of
\* the returned list, has a parsed_ranking that is a permutation of the labels.
C2_NonPartialIsPermutation ==
    /\ \A i \in Returned2 :
          ~jud[i].item.partial => IsPermutation(jud[i].item.parsed_ranking,
                                                LabelsOf(stage1_results))
    /\ \A k \in DOMAIN stage2_results :
          ~stage2_results[k].partial => IsPermutation(stage2_results[k].parsed_ranking,
                                                      LabelsOf(stage1_results))

\* the returned list ends with a non-partial adjudicator entry that was built
\* from a repair attempt, after non-partial entries of the judges
C2_Witness ==
    /\ pc = "stage2_returned"
    /\ Len(stage2_results) = Len(ConfiguredJudges) + 1
    /\ ~stage2_results[1].partial
    /\ ~stage2_results[Len(stage2_results)].partial
    /\ stage2_results[Len(stage2_results)].from \in {"A0ev", "A1", "A2"}

-----------------------------------------------------------------------------
(* Stage 2 with judges that disagree: the consensus gate                   *)

\* number of judges of the gate's council
GateJudges == 4

GatePool == <<Gpt, Opus, Sonnet, Grok, Haiku>>

\* the designated adjudicator is a judge, so that the first fallback, a
\* google/ model, adjudicates
GateCouncil(enabled) ==
    Config(<<Gpt, Sonnet, Grok>>, SubSeq(GatePool, 1, GateJudges), enabled, Opus, Opus,
           FALSE, Gemini, {GoodResponse},
           {ExcReply, Good(<<"A", "B", "C">>), Good(<<"B", "A", "C">>),
            Good(<<"C", "A", "B">>)},
           {ExcReply, EmptyText, Good(<<"A", "C", "B">>)},
           {ExcReply}, {ExcReply})

InitGate ==
    \E enabled \in BOOLEAN :
        Stage1Returned(GateCouncil(enabled),
                       <<Stage1TryOnce(Gpt, GoodResponse), Stage1TryOnce(Sonnet, GoodResponse),
                         Stage1TryOnce(Grok, GoodResponse)>>)

SpecGate == InitGate /\ [][Stage2Next]_vars

\* the judges' entries that vote in the tally, and the tally of a label
Voting == {k \in DOMAIN ConfiguredJudges :
              /\ ~jud[k].item.partial
              /\ jud[k].item.parsed_ranking # <<>>
              /\ jud[k].item.parsed_ranking[1] \in Range(LabelsOf(stage1_results))}
Tally(label) == Cardinality({k \in Voting : jud[k].item.parsed_ranking[1] = label})

\* the condition of C7 on the judges' entries
GateOpen ==
    LET V == Cardinality(Voting)
    IN /\ cfg.adjudicate_enabled
       /\ V >= 3
       /\ Cardinality({l \in Range(LabelsOf(stage1_results)) : Tally(l) > 0}) >= 2
       /\ \A l \in Range(LabelsOf(stage1_results)) : Tally(l) < (IF V >= 4 THEN 3 ELSE 2)

\* C7: once the judges are joined, the adjudicator's run has been started if
\* and only if adjudication is enabled, at least 3 non-partial judges vote, their
\* top-1 votes name at least 2 labels, and the plurality is below 3 (4 or
\* more voters) or 2 (3 voters); it is started at most once, and the returned
\* list has M entries without it and M + 1 entries with it.
C7_AdjudicatorIffGateOpen ==
    pc \in {"adjudicate", "stage2_returned"} =>
        /\ Len(jud) = Len(ConfiguredJudges) + (IF GateOpen THEN 1 ELSE 0)
        /\ pc = "adjudicate" => GateOpen
        /\ pc = "stage2_returned" =>
              /\ Len(stage2_results) = Len(jud)
              /\ \A k \in DOMAIN stage2_results :
                    stage2_results[k].adjudicator <=> k > Len(ConfiguredJudges)

\* four judges voted A, A, B, C and the list returned has five entries
C7_Witness ==
    /\ pc = "stage2_returned"
    /\ Len(ConfiguredJudges) = 4
    /\ Cardinality(Voting) = 4
    /\ Tally(LabelFor["A"]) = 2 /\ Tally(LabelFor["B"]) = 1 /\ Tally(LabelFor["C"]) = 1
    /\ Len(stage2_results) = 5
    /\ stage2_results[5].adjudicator

-----------------------------------------------------------------------------
(* Stage 3 on the arguments of stage3_select_winner drawn from bounded     *)
(* sets: the rank aggregation                                              *)

\* the largest number of Stage-2 entries given to the aggregation
MaxVoters == 2

AggCouncil ==
    Config(<<Gpt, Sonnet, Grok>>, SubSeq(JudgePool, 1, MaxVoters), FALSE, Opus, Opus,
           TRUE, Gemini, {GoodResponse, ProhibitedResponse}, {ExcReply}, {ExcReply},
           {ExcReply, GoodResponse, ProhibitedResponse}, {GoodResponse})

\* Stage-1 lists: each generator's response is eligible or not, or the last
\* generator failed
AggStage1 ==
    {<<Stage1TryOnce(Gpt, a), Stage1TryOnce(Sonnet, b), Stage1TryOnce(Grok, c)>> :
        a \in {GoodResponse, ProhibitedResponse}, b \in {GoodResponse, ProhibitedResponse},
        c \in {GoodResponse, ProhibitedResponse}}
    \cup {<<Stage1TryOnce(Gpt, GoodResponse), Stage1TryOnce(Sonnet, ProhibitedResponse), NoItem>>}

ABC == <<LabelFor["A"], LabelFor["B"], LabelFor["C"]>>

Permutations3 ==
    {p \in {<<ABC[i], ABC[j], ABC[k]>> : i \in 1..3, j \in 1..3, k \in 1..3} :
        Cardinality(Range(p)) = 3}

\* the entries a judge at position k may have returned: non-partial with a
\* permutation, or partial with any ranking
AggVoters(k) ==
    {Stage2Entry(JudgePool[k], CanonicalDefault(ABC), p, FALSE, FALSE, "", "A0") :
        p \in Permutations3}
    \cup {Stage2Entry(JudgePool[k], CanonicalDefault(ABC), p, TRUE, TRUE, "placeholder_critiques", "A3") :
             p \in {<<ABC[3], ABC[1], ABC[2]>>, <<ABC[2]>>}}
    \cup {PartialFallback(JudgePool[k], "stage2_exception_fallback", ABC)}

AggStage2 ==
    UNION {{s \in [1..n -> UNION {AggVoters(k) : k \in 1..n}] :
              \A k \in 1..n : s[k] \in AggVoters(k)} : n \in 0..MaxVoters}

\* stage2_collect_rankings has returned the entries
Stage2Returned(c, items, entries) ==
    /\ cfg = c
    /\ contract_stack = NoStack
    /\ contract_ids = <<>>
    /\ parser = NoCall
    /\ store = InMemory
    /\ api = NoRequest
    /\ convo = NoConversation
    /\ pc = "stage2_returned"
    /\ gen = [k \in 1..Len(items) |-> GenTask(Stage1Models(c)[k], "done", items[k], FALSE, 1)]
    /\ errors1 = [m \in {Stage1Models(c)[k] : k \in {j \in 1..Len(items) : items[j] = NoItem}}
                    |-> "Empty response"]
    /\ stage1_results = Stage1Results(Stage1Models(c), items)
    /\ jud = <<>>
    /\ errors2 = EmptyDict
    /\ stage2_results = entries
    /\ label_to_model = LabelResponses(stage1_results)
    /\ aggregate_rankings = <<>>
    /\ s3 = NoStage3
    /\ stage3_result = NoItem
    /\ STAGE1_LAST_ERRORS = errors1
    /\ STAGE2_LAST_ERRORS = EmptyDict
    /\ raised = "none"
    /\ order1 = <<>>

InitAgg == \E items \in AggStage1 : \E entries \in AggStage2 : Stage2Returned(AggCouncil, items, entries)

SpecAgg == InitAgg /\ [][Stage3Next]_vars

\* the aggregation has run
Aggregated == pc \in {"helper", "chairman", "done"}

NonPartialEntries(entries) == SelectSeq(entries, LAMBDA e : ~e.partial)

\* C5: the aggregates computed from the Stage-2 entries are those computed
\* from the entries without the ones that have partial = true: same models,
\* same average_rank and rankings_count, same order.
C5_PartialEntriesHaveNoWeight ==
    Aggregated =>
        aggregate_rankings =
            CalculateAggregateRankings(NonPartialEntries(stage2_results),
                                       DerivedLabelToModel(stage1_results),
                                       ContractEvalsByModel(stage1_results))

\* the aggregation ran on a partial entry ranking C first and a non-partial
\* entry, and ranked a model
C5_Witness ==
    /\ Aggregated
    /\ \E k \in DOMAIN stage2_results :
          /\ stage2_results[k].partial
          /\ stage2_results[k].parsed_ranking = <<ABC[3], ABC[1], ABC[2]>>
    /\ \E k \in DOMAIN stage2_results : ~stage2_results[k].partial
    /\ \E k \in DOMAIN aggregate_rankings : aggregate_rankings[k].rankings_count > 0

\* the positions of model m in the aggregates
PositionsOf(m) == {k \in DOMAIN aggregate_rankings : aggregate_rankings[k].model = m}

\* the generator models whose contract eval has eligible = false
Ineligible ==
    {m \in Range(ContractEvalsByModel(stage1_results).keys) :
        ~ContractEvalsByModel(stage1_results).val[m].eligible}

\* C6: every generator model whose contract eval has eligible = false has one
\* aggregate, with disqualified = true, average_rank 9998 and rankings_count
\* 0, and it comes after every aggregate that is not disqualified.
C6_IneligibleDisqualifiedLast ==
    Aggregated =>
        \A m \in Ineligible :
            /\ Cardinality(PositionsOf(m)) = 1
            /\ \A k \in PositionsOf(m) :
                  /\ aggregate_rankings[k].disqualified
                  /\ aggregate_rankings[k].average_rank = [num |-> 9998, den |-> 1]
                  /\ aggregate_rankings[k].rankings_count = 0
                  /\ \A j \in DOMAIN aggregate_rankings :
                        ~aggregate_rankings[j].disqualified => j < k

\* two non-partial judges ranked an ineligible response and a synthetic
\* placeholder above an eligible one
C6_Witness ==
    /\ Aggregated
    /\ Cardinality(Ineligible) = 2
    /\ stage1_results[3].synthetic
    /\ Len(stage2_results) = 2
    /\ \A k \in DOMAIN stage2_results :
          /\ ~stage2_results[k].partial
          /\ stage2_results[k].parsed_ranking[3] = ABC[1]
    /\ aggregate_rankings[1].rankings_count = 2

-----------------------------------------------------------------------------
(* Whole runs (Spec)                                                       *)

\* some generator task returned a real response
RealResponse == \E k \in DOMAIN gen : gen[k].at = "done" /\ gen[k].item # NoItem

\* Stage 1 is over and produced a real response
RunGoesOn == pc \notin {"idle", "stage1"} /\ RealResponse

\* the guard of one of the steps of Stages 2 and 3 holds: a stage function is
\* about to be called, a reply or a sleep is awaited, or a gather can return
CanStep ==
    \/ pc \in {"stage1_returned", "stage2_returned"}
    \/ /\ pc \in {"stage2", "adjudicate"}
       /\ \E i \in DOMAIN jud : jud[i].sub \in {"call", "retry", "sleep"}
    \/ pc = "stage2" /\ Stage2Gathered(jud)
    \/ pc = "adjudicate" /\ jud[Len(jud)].sub = "done"
    \/ pc = "helper"
    \/ pc = "chairman" /\ s3.at \in {"draft", "repair"}

\* C9: when at least one generator yields a real response, then whatever the
\* other generators, the judges, the adjudicator, the helper and the chairman
\* reply (exception, empty text, provider-id text), no stage function raises,
\* the run can always take its next step until Stage 3 has returned, and it
\* ends with a Stage-3 result.
C9_RunEndsWithStage3Result ==
    RunGoesOn =>
        /\ raised = "none"
        /\ pc # "failed"
        /\ pc # "done" => CanStep
        /\ pc = "done" => /\ stage3_result # NoItem
                          /\ stage3_result.model = cfg.chairman

\* a run ended with the failure result of Stage 3 after a generator failed, a
\* judge's call raised and the chairman's call raised
C9_Witness ==
    /\ pc = "done"
    /\ RealResponse
    /\ \E k \in DOMAIN gen : gen[k].item = NoItem
    /\ \E i \in DOMAIN jud : Raised2(i)
    /\ s3.at = "raised"
    /\ stage3_result = Stage3Failure(cfg.chairman)

\* a chat call of a generator, of a judge (the adjudicator included), of Stage 3
\* is awaited or about to be retried
GeneratorCalling(k) == gen[k].at # "done"
JudgeCalling(i) == jud[i].sub # "done"
Stage3Calling == pc \in {"helper", "chairman"}

\* C10: no judge chat call is in flight before every generator task of Stage 1
\* has finished; the adjudicator's task exists only when every judge's ladder
\* has finished; and no helper or chairman call is in flight before Stage 2,
\* with the adjudicator's entry if any, has returned.
C10_StagesJoinBeforeNext ==
    /\ jud # <<>> => \A k \in DOMAIN gen : ~GeneratorCalling(k)
    /\ Len(jud) > Len(ConfiguredJudges) =>
          \A i \in DOMAIN ConfiguredJudges : ~JudgeCalling(i)
    /\ Stage3Calling =>
          /\ \A k \in DOMAIN gen : ~GeneratorCalling(k)
          /\ \A i \in DOMAIN jud : ~JudgeCalling(i)
          /\ Len(stage2_results) = Len(jud)

\* the chairman is called after three generators, three judges and the
\* adjudicator have all finished, the generators not in configured order
C10_Witness ==
    /\ pc = "chairman"
    /\ Len(gen) = 3
    /\ Len(jud) = Len(ConfiguredJudges) + 1
    /\ Len(stage2_results) = Len(jud)
    /\ \E k \in DOMAIN gen : gen[k].caught

-----------------------------------------------------------------------------
(* Stage 1 followed by the labelling of its entries at the start of Stage 2 *)

LabelsNext == Stage1Next \/ Stage2Start

SpecLabels == InitStage1 /\ [][LabelsNext]_vars

\* C11: once Stage 2 has labelled the Stage-1 entries, label_to_model has
\* exactly the keys Response A, Response B, ... one per entry, maps the k-th
\* label to the model of the k-th entry, and maps no two labels to the same
\* model.
C11_LabelsBijective ==
    pc = "stage2" =>
        /\ DOMAIN label_to_model = {LabelAt(k) : k \in 1..Len(stage1_results)}
        /\ \A k \in 1..Len(stage1_results) :
              label_to_model[LabelAt(k)] = stage1_results[k].model
        /\ \A j, k \in 1..Len(stage1_results) :
              label_to_model[LabelAt(j)] = label_to_model[LabelAt(k)] => j = k

-----------------------------------------------------------------------------
(* The chairman's draft and repair (Spec)                                  *)

\* the repair call has been issued: it is awaited, or it replied, or it raised
RepairIssued ==
    \/ s3.at \in {"repair", "repaired", "kept"}
    \/ s3.at = "raised" /\ s3.ev # NoItem

\* the repair call raised
RepairRaised == s3.at = "raised" /\ s3.ev # NoItem

\* the first draft, as stage3_synthesize_final would return it
OriginalDraft == Stage3Result(cfg.chairman, s3.out, s3.ev)

\* the parts of C12 that do not depend on how the repair call ends
C12_RepairIffDraftFails ==
    /\ s3.at = "returned" => s3.ev.status # "FAIL" /\ stage3_result = OriginalDraft
    /\ RepairIssued => s3.ev.status = "FAIL"
    /\ s3.at = "repair" => pc = "chairman" /\ stage3_result = NoItem
    /\ s3.at \in {"repaired", "kept"} => pc = "done"
    /\ s3.at = "repaired" =>
          /\ NonEmpty(stage3_result.response)
          /\ stage3_result.contract_eval = EvaluateContractCompliance(stage3_result.response)
    /\ s3.at = "kept" => stage3_result = OriginalDraft

\* C12: the repair call is issued if and only if the first draft's contract
\* eval has status FAIL, and only once; Stage 3 then returns the repair text
\* when that text is non-empty, and otherwise the original draft with the
\* original draft's contract eval.
C12_RepairOnceElseOriginal ==
    /\ C12_RepairIffDraftFails
    /\ (RepairIssued /\ pc = "done" /\ s3.at # "repaired") => stage3_result = OriginalDraft

\* the sum of rankings_count over the aggregates
CountsSum == SumSeq([k \in 1..Len(aggregate_rankings) |-> aggregate_rankings[k].rankings_count])

\* the ranking positions of the non-partial entries that hold the label of a
\* disqualified model
DisqualifiedPositions ==
    LET l2m == DerivedLabelToModel(stage1_results)
        np == NonPartialEntries(stage2_results)
    IN SumSeq([e \in 1..Len(np) |->
                 Cardinality({k \in 1..Len(np[e].parsed_ranking) :
                                /\ np[e].parsed_ranking[k] \in DOMAIN l2m
                                /\ l2m[np[e].parsed_ranking[k]] \in Ineligible})])

\* C15: the sum of rankings_count over all aggregates is the number of labels
\* times the number of non-partial Stage-2 entries, minus the number of ranking
\* positions occupied by disqualified models.
C15_CountsSumToRankedPositions ==
    Aggregated =>
        CountsSum = Len(stage1_results) * Len(NonPartialEntries(stage2_results))
                        - DisqualifiedPositions

\* two non-partial entries ranked three responses, one of them disqualified
C15_Witness ==
    /\ Aggregated
    /\ Len(stage1_results) = 3
    /\ Len(NonPartialEntries(stage2_results)) = 2
    /\ Cardinality(Ineligible) = 1
    /\ DisqualifiedPositions = 2
    /\ CountsSum = 4

\* C16: parsing the canonical text of a Stage-2 entry that has partial = false,
\* with the run's labels as the allowed labels, returns the entry's
\* parsed_ranking.
C16_CanonicalParsesToParsedRanking ==
    /\ \A i \in Returned2 :
          ~jud[i].item.partial =>
              ParseRankingFromText(CanonicalText(jud[i].item.ranking), LabelsOf(stage1_results))
                  = jud[i].item.parsed_ranking
    /\ \A k \in DOMAIN stage2_results :
          ~stage2_results[k].partial =>
              ParseRankingFromText(CanonicalText(stage2_results[k].ranking),
                                   LabelsOf(stage1_results))
                  = stage2_results[k].parsed_ranking

\* a returned non-partial entry ranks Response C first, which is neither the
\* label order nor the example order
C16_Witness ==
    /\ pc = "stage2_returned"
    /\ \E k \in DOMAIN stage2_results :
          /\ ~stage2_results[k].partial
          /\ stage2_results[k].parsed_ranking = <<LabelFor["C"], LabelFor["A"], LabelFor["B"]>>
          /\ stage2_results[k].ranking[5].order = stage2_results[k].parsed_ranking

\* the returned tasks whose entry was built from the output of attempt A3
RepairedJudges ==
    {i \in Returned2 :
        /\ jud[i].hist # <<>>
        /\ jud[i].hist[Len(jud[i].hist)].at = "A3"
        /\ jud[i].hist[Len(jud[i].hist)].ok}

\* C19: every Stage-2 entry built from the one-line repair A3 has partial =
\* true and a non-empty partial_reason, whatever the A3 reply was, and so casts
\* no top-1 vote and has no weight in the aggregates.
C19_RepairEntryAlwaysPartial ==
    \A i \in RepairedJudges :
        /\ jud[i].item.partial
        /\ jud[i].item.partial_reason # ""
        /\ Top1Votes(<<jud[i].item>>, LabelsOf(stage1_results)) = <<>>
        /\ CalculateAggregateRankings(<<jud[i].item>>, DerivedLabelToModel(stage1_results),
                                      ContractEvalsByModel(stage1_results))
              = CalculateAggregateRankings(<<>>, DerivedLabelToModel(stage1_results),
                                           ContractEvalsByModel(stage1_results))

\* the A3 reply was a well-formed answer that the quality gate classifies as
\* not partial, after three attempts that were not acceptable
C19_Witness ==
    \E i \in RepairedJudges :
        /\ Len(jud[i].hist) = 4
        /\ ~jud[i].hist[4].partial
        /\ jud[i].item.partial_reason = "repair_only_ranking"
        /\ jud[i].item.parsed_ranking = <<LabelFor["C"], LabelFor["A"], LabelFor["B"]>>

\* C20: in one Stage-1 run a generator whose model id does not start with
\* google/ gets exactly one chat call, and a google/ generator at most two: the
\* first attempt and a single retry.
C20_OneRetryAtMost ==
    \A i \in DOMAIN gen :
        IF StartsWithGoogle(gen[i].m) THEN gen[i].ncalls <= 2 ELSE gen[i].ncalls = 1

-----------------------------------------------------------------------------
(* The adjudicator: designated, substituted from the fallbacks, or a judge  *)

\* councils whose judges disagree: the designated adjudicator is a judge and
\* a fallback is free; it is not a judge; it is a judge and so is every
\* fallback; the environment sets STAGE2_ADJUDICATE_MIN_TOP1_VOTES to the
\* number of judges
AdjudicatorCouncils ==
    {GateCouncil(TRUE),
     [GateCouncil(TRUE) EXCEPT !.adjudicator = Gpt41],
     [GateCouncil(TRUE) EXCEPT !.adjudicator_fallbacks = <<Sonnet, Gpt>>],
     [GateCouncil(TRUE) EXCEPT !.adjudicate_min_top1_votes = GateJudges]}

InitAdjudicator ==
    \E c \in AdjudicatorCouncils :
        Stage1Returned(c, <<Stage1TryOnce(Gpt, GoodResponse), Stage1TryOnce(Sonnet, GoodResponse),
                            Stage1TryOnce(Grok, GoodResponse)>>)

SpecAdjudicator == InitAdjudicator /\ [][Stage2Next]_vars

\* the adjudicator's run_one has been started
AdjudicatorStarted == Len(jud) > Len(ConfiguredJudges)

\* the fallbacks that are not configured judges, by position
FreeFallbacks ==
    {j \in DOMAIN cfg.adjudicator_fallbacks :
        cfg.adjudicator_fallbacks[j] \notin Range(ConfiguredJudges)}

\* the returned list: the judges' entries in configured order, then the
\* adjudicator's entry if there is one, under a model field of its own
JudgesThenAdjudicator ==
    pc = "stage2_returned" =>
        LET n == Len(ConfiguredJudges)
        IN /\ Len(stage2_results) = IF AdjudicatorStarted THEN n + 1 ELSE n
           /\ \A k \in 1..n :
                 /\ stage2_results[k].model = ConfiguredJudges[k]
                 /\ ~stage2_results[k].adjudicator
           /\ AdjudicatorStarted =>
                 /\ stage2_results[n + 1].adjudicator
                 /\ \A k \in 1..n : stage2_results[n + 1].model # stage2_results[k].model

\* C21 as stated: Stage-2 entries are returned in configured-judge order with
\* the adjudicator entry last, under a model field no judge's entry has; the
\* adjudicator model is the designated one unless that is a configured judge,
\* and then it is the first fallback that is not a configured judge.
C21_Original ==
    /\ JudgesThenAdjudicator
    /\ AdjudicatorStarted =>
          LET m == jud[Len(jud)].m
          IN IF cfg.adjudicator \notin Range(ConfiguredJudges) THEN m = cfg.adjudicator
             ELSE /\ FreeFallbacks # {}
                  /\ m = cfg.adjudicator_fallbacks[First(FreeFallbacks)]

\* C21 as the code behaves: the same, and when the designated adjudicator is a
\* configured judge and so is every fallback, the designated model adjudicates.
C21_AdjudicatorLastAndDistinct ==
    /\ JudgesThenAdjudicator
    /\ AdjudicatorStarted =>
          LET m == jud[Len(jud)].m
          IN IF cfg.adjudicator \notin Range(ConfiguredJudges) \/ FreeFallbacks = {}
             THEN m = cfg.adjudicator
             ELSE m = cfg.adjudicator_fallbacks[First(FreeFallbacks)]

\* the designated adjudicator, a judge, adjudicated for want of a free
\* fallback, and its entry was appended under the suffixed model field
C21_Witness ==
    /\ pc = "stage2_returned"
    /\ AdjudicatorStarted
    /\ cfg.adjudicator \in Range(ConfiguredJudges)
    /\ FreeFallbacks = {}
    /\ stage2_results[Len(stage2_results)].model = Append(cfg.adjudicator, AdjudicatorSuffix)

\* the gate of C7 with the given threshold in place of the default
GateOpenAt(required) ==
    /\ cfg.adjudicate_enabled
    /\ Cardinality(Voting) >= 3
    /\ Cardinality({l \in Range(LabelsOf(stage1_results)) : Tally(l) > 0}) >= 2
    /\ \A l \in Range(LabelsOf(stage1_results)) : Tally(l) < required

\* C22: when the environment sets STAGE2_ADJUDICATE_MIN_TOP1_VOTES to a
\* positive integer k, the consensus gate adjudicates exactly when the
\* plurality is below k, in place of the default 3 (4 or more voters) or 2.
C22_ThresholdOverridable ==
    (pc \in {"adjudicate", "stage2_returned"} /\ cfg.adjudicate_min_top1_votes > 0) =>
        (AdjudicatorStarted <=> GateOpenAt(cfg.adjudicate_min_top1_votes))

-----------------------------------------------------------------------------
(* The quality gate on one judge's attempts, over four responses           *)

Lines(a, b, c, d) == [l \in {"A", "B", "C", "D"} |-> CASE l = "A" -> a [] l = "B" -> b [] l = "C" -> c [] OTHER -> d]
Critiqued(lines, order) == JudgeText(FALSE, lines, TRUE, Ranking(order))

DCAB == <<"D", "C", "A", "B">>
BCAD == <<"B", "C", "A", "D">>

\* the outputs the judge may give at each attempt
QualityReplies ==
    {ExcReply, EmptyText, NoRanking,
     Good(DCAB), Good(BCAD), Good(<<"B">>), NoEvidence(DCAB), Legacy(DCAB), RankOnly(BCAD), RankOnly(DCAB),
     Critiqued(Lines(GoodLine, GoodLine, GoodLine, PlaceholderLine), DCAB),
     Critiqued(Lines(GoodLine, GoodLine, GoodLine, PlaceholderLine), BCAD),
     Critiqued(Lines(GoodLine, PlaceholderLine, GoodLine, PlaceholderLine), DCAB),
     Critiqued(Lines(GoodLine, Crit(TRUE, FALSE, FALSE, TRUE), GoodLine, GoodLine), DCAB),
     Critiqued(Lines(GoodLine, Crit(FALSE, TRUE, FALSE, TRUE), GoodLine, GoodLine), DCAB),
     Critiqued(Lines(GoodLine, Crit(TRUE, TRUE, FALSE, FALSE), Crit(TRUE, TRUE, FALSE, FALSE), GoodLine), DCAB)}

QualityCouncil ==
    Config(<<Gpt, Sonnet, Grok, Opus>>, <<Haiku>>, FALSE, Opus, Opus, FALSE, Gemini,
           {GoodResponse, ShortResponse}, QualityReplies, {ExcReply}, {ExcReply}, {ExcReply})

InitQuality ==
    \E d \in {GoodResponse, ShortResponse} :
        Stage1Returned(QualityCouncil,
                       <<Stage1TryOnce(Gpt, GoodResponse), Stage1TryOnce(Sonnet, GoodResponse),
                         Stage1TryOnce(Grok, GoodResponse), Stage1TryOnce(Opus, d)>>)

QualityNext == Stage2Start \/ \E i \in DOMAIN jud : JudgeReply(i)

SpecQuality == InitQuality /\ [][QualityNext]_vars

\* the four critique lines of the canonical form of an output
CritiquesOf(o) ==
    LET canonical == CoerceStage2_5line(o, LabelsOf(stage1_results))
    IN [k \in 1..4 |-> canonical[k].crit]

PlaceholdersIn(o) == Cardinality({k \in 1..4 : CritiquesOf(o)[k].ph})

\* the critique lines that share a token with the response they are about,
\* or whose response is shorter than 20 characters
EvidencedIn(o) ==
    Cardinality({k \in 1..4 :
        \/ k > Len(stage1_results)
        \/ stage1_results[k].response.short
        \/ stage1_results[k].response.rw
        \/ CritiquesOf(o)[k].ev})

\* the order parsed from the output, completed with the labels it leaves out
CompletedOrderOf(o) ==
    CompleteOrder(ParseRankingFromText(o, <<>>), LabelsOf(stage1_results))

\* the conditions of the claim other than the one on strength: and flaw:
OtherPartialConditions(o) ==
    \/ Len(CoerceStage2_5line(o, LabelsOf(stage1_results))) # 5
    \/ PlaceholdersIn(o) >= 2
    \/ Len(ParseRankingFromText(o, <<>>)) <= 1
    \/ /\ CompletedOrderOf(o) = ExampleRanking(LabelsOf(stage1_results))
       /\ PlaceholdersIn(o) >= 1
    \/ EvidencedIn(o) < STAGE2_EVIDENCE_MIN_LINES

\* C17 as stated: an acceptable attempt is classified partial exactly when the
\* canonical form does not have 5 lines, or some critique line has neither
\* "strength:" nor "flaw:", or at least 2 critique lines are placeholders, or
\* the raw ranking had at most 1 distinct label, or the completed order is the
\* example order and some critique is a placeholder, or fewer than
\* STAGE2_EVIDENCE_MIN_LINES critique lines pass the evidence test.
C17_Original ==
    \A i \in DOMAIN jud : \A k \in DOMAIN jud[i].hist :
        LET a == jud[i].hist[k]
        IN a.ok =>
             (a.partial <=>
                 \/ \E n \in 1..4 : ~CritiquesOf(a.out)[n].s /\ ~CritiquesOf(a.out)[n].f
                 \/ OtherPartialConditions(a.out))

\* C17 as the code behaves: the same, with the second condition being that some
\* critique line lacks "strength:" or lacks "flaw:".
C17_PartialIffLowSignal ==
    \A i \in DOMAIN jud : \A k \in DOMAIN jud[i].hist :
        LET a == jud[i].hist[k]
        IN a.ok =>
             (a.partial <=>
                 \/ \E n \in 1..4 : ~CritiquesOf(a.out)[n].s \/ ~CritiquesOf(a.out)[n].f
                 \/ OtherPartialConditions(a.out))

\* a judge's first attempt had a critique with "strength:" and no "flaw:" and
\* was classified partial, and its second attempt was acceptable and not partial
C17_Witness ==
    \E i \in DOMAIN jud :
        /\ Len(jud[i].hist) = 2
        /\ jud[i].hist[1].ok /\ jud[i].hist[1].partial
        /\ \E n \in 1..4 : CritiquesOf(jud[i].hist[1].out)[n].s /\ ~CritiquesOf(jud[i].hist[1].out)[n].f
        /\ ~OtherPartialConditions(jud[i].hist[1].out)
        /\ jud[i].hist[2].ok /\ ~jud[i].hist[2].partial

\* the output is a FINAL_RANKING line and nothing else
RankingOnly(o) ==
    /\ o.kind = "text"
    /\ ~o.narr
    /\ o.final
    /\ \A l \in DOMAIN o.crit : ~o.crit[l].present

InExampleOrder(o) ==
    ParseRankingFromText(o, <<>>) = ExampleRanking(LabelsOf(stage1_results))

\* the returned judges all of whose attempts gave a ranking-only output
RankingOnlyJudges ==
    {i \in Returned2 :
        /\ jud[i].hist # <<>>
        /\ \A k \in DOMAIN jud[i].hist : RankingOnly(jud[i].hist[k].out)}

\* the aggregates are those computed without the entry
ExcludedFromAggregation(entry) ==
    CalculateAggregateRankings(<<entry>>, DerivedLabelToModel(stage1_results),
                               ContractEvalsByModel(stage1_results))
        = CalculateAggregateRankings(<<>>, DerivedLabelToModel(stage1_results),
                                     ContractEvalsByModel(stage1_results))

\* C18 as stated: a judge whose every attempt outputs only a FINAL_RANKING
\* line gets an entry with partial = true that is excluded from aggregation;
\* its partial_reason is "example_order_and_placeholder" when every output was
\* in the example order.
C18_Original ==
    \A i \in RankingOnlyJudges :
        /\ jud[i].item.partial
        /\ ExcludedFromAggregation(jud[i].item)
        /\ (\A k \in DOMAIN jud[i].hist : InExampleOrder(jud[i].hist[k].out))
              => jud[i].item.partial_reason = "example_order_and_placeholder"

\* C18 as the code behaves: a judge whose every attempt outputs only a
\* FINAL_RANKING line, in the example order or in any other, gets an entry with
\* partial = true and partial_reason "placeholder_critiques" that is excluded
\* from aggregation.
C18_RankingOnlyIsPartial ==
    \A i \in RankingOnlyJudges :
        /\ jud[i].item.partial
        /\ ExcludedFromAggregation(jud[i].item)
        /\ jud[i].item.partial_reason = "placeholder_critiques"

\* a judge answered twice with only the ranking line in the example order
C18_Witness ==
    \E i \in RankingOnlyJudges :
        /\ Len(jud[i].hist) = 2
        /\ \A k \in DOMAIN jud[i].hist : InExampleOrder(jud[i].hist[k].out)
        /\ jud[i].item.parsed_ranking = ExampleRanking(LabelsOf(stage1_results))

-----------------------------------------------------------------------------
(* parse_contract_ids on every contract stack of up to MaxPieces pieces    *)

MaxPieces == 3
Pieces == {FACTORY_TRUTH_V1, " factory_truth_v1 ", ELDERCARE_SAFETY_V1, "", " "}
ContractStacks == {NoStack} \cup {StackOf(p) : p \in UNION {[1..n -> Pieces] : n \in 1..MaxPieces}}

InitContracts ==
    /\ cfg = DisagreeingCouncil
    /\ contract_stack \in ContractStacks
    /\ contract_ids = <<>>
    /\ parser = NoCall
    /\ store = InMemory
    /\ api = NoRequest
    /\ convo = NoConversation
    /\ pc = "idle"
    /\ gen = <<>>
    /\ errors1 = EmptyDict
    /\ stage1_results = <<>>
    /\ jud = <<>>
    /\ errors2 = EmptyDict
    /\ stage2_results = <<>>
    /\ label_to_model = EmptyDict
    /\ aggregate_rankings = <<>>
    /\ s3 = NoStage3
    /\ stage3_result = NoItem
    /\ STAGE1_LAST_ERRORS = EmptyDict
    /\ STAGE2_LAST_ERRORS = EmptyDict
    /\ raised = "none"
    /\ order1 = <<>>

SpecContracts == InitContracts /\ [][ParseContractIds]_vars

Resolved == contract_ids # <<>>
Occurrences(ids, c) == Cardinality({i \in 1..Len(ids) : ids[i] = c})
InputIds == IF contract_stack.given THEN StrippedIds(contract_stack.pieces) ELSE <<>>

\* C13: whatever the contract stack (absent, empty, with or without the base
\* id, with the base id at any position or repeated), the resolved stack has
\* the factory base contract first and contains it exactly once.
C13_BaseFirstExactlyOnce ==
    Resolved =>
        /\ contract_ids[1] = FACTORY_TRUTH_V1
        /\ Occurrences(contract_ids, FACTORY_TRUTH_V1) = 1

\* the base id was given twice, and not first
C13_Witness ==
    /\ Resolved
    /\ Len(InputIds) = 3
    /\ InputIds[1] = ELDERCARE_SAFETY_V1
    /\ Occurrences(InputIds, FACTORY_TRUTH_V1) = 2

\* C14: the resolved stack contains no contract id twice: every id repeated
\* in the input is reduced to its first occurrence, and the remaining ids keep
\* their input order after the base.
C14_NoIdTwice ==
    Resolved =>
        /\ \A i, j \in 1..Len(contract_ids) : contract_ids[i] = contract_ids[j] => i = j
        /\ contract_ids = <<FACTORY_TRUTH_V1>> \o Without(Dedupe(InputIds), FACTORY_TRUTH_V1)

-----------------------------------------------------------------------------
(* The HTTP layer (main.py) over the conversation store (storage.py) and  *)
(* the role registry (roles.py)                                           *)

\* the variables of the council functions, which the HTTP handlers leave alone
CouncilVars == <<parser, store, cfg, contract_stack, contract_ids, pc, gen, errors1, stage1_results, jud, errors2, stage2_results, label_to_model, aggregate_rankings, s3, stage3_result, STAGE1_LAST_ERRORS, STAGE2_LAST_ERRORS, raised, order1>>

\* the frozen dataclass RoleSpec: its two fields and no others
RoleSpec(role, system_prompt) == [role |-> role, system_prompt |-> system_prompt]

DEFAULT_ROLE == RoleSpec("Generalist", "generalist prompt")

MODEL_ROLES ==
    [m \in {Gpt, Gemini, Sonnet, Grok, Opus} |->
        CASE m = Gpt -> RoleSpec("Analyst", "analyst prompt")
          [] m = Gemini -> RoleSpec("Researcher", "researcher prompt")
          [] m = Sonnet -> RoleSpec("Critic", "critic prompt")
          [] m = Grok -> RoleSpec("Provocateur", "provocateur prompt")
          [] m = Opus -> RoleSpec("Chairman", "chairman prompt")]

\* MODEL_ROLES.get(model_id, DEFAULT_ROLE); the handler passes payload.role or
\* "default", and NoModel stands for the absent role
get_role_spec(model_id) ==
    IF model_id \in DOMAIN MODEL_ROLES THEN MODEL_ROLES[model_id] ELSE DEFAULT_ROLE

\* obj.name on a dataclass instance: the field's value, or AttributeError
GetAttr(obj, name) ==
    IF name \in DOMAIN obj
    THEN [raised |-> FALSE, value |-> obj[name]]
    ELSE [raised |-> TRUE, value |-> "'RoleSpec' object has no attribute '" \o name \o "'"]

\* the dict create_conversation stores
create_conversation(title) ==
    [stored |-> TRUE, title |-> IF title = "" THEN "New conversation" ELSE title,
     messages |-> <<>>]

\* add_user_message on a stored conversation
add_user_message(c, content) ==
    [c EXCEPT !.messages = Append(@, [role |-> "user", content |-> content])]

\* add_assistant_message on a stored conversation
add_assistant_message(c, content, stage1, stage2, stage3, meta) ==
    [c EXCEPT !.messages = Append(@, [role |-> "assistant", content |-> content,
                                      stage1 |-> stage1, stage2 |-> stage2,
                                      stage3 |-> stage3, meta |-> meta])]

\* main's names STAGE1_LAST_ERRORS and STAGE2_LAST_ERRORS: bound when main is
\* imported to the dicts council was loaded with; council never mutates those
\* dicts, it rebinds its own names at the end of each stage
MainStage1LastErrors == EmptyDict
MainStage2LastErrors == EmptyDict

\* (payload.content or "").strip().splitlines()[0:1]: the first line that is
\* not blank, "" when there is none (content is its list of lines, a blank
\* line being "")
TitleFromPrompt(content) ==
    LET lines == SelectSeq(content, LAMBDA l : l # "")
    IN IF lines = <<>> THEN "" ELSE lines[1]

\* _extract_title_from_stage3_response: None ("") for an empty response, else
\* the heading of the synthesis
ExtractTitleFromStage3Response(resp) == IF NonEmpty(resp) THEN "Synthesis" ELSE ""

\* the best-effort title update after the assistant message is saved
UpdateTitle(c, s3_text, content) ==
    LET t3 == ExtractTitleFromStage3Response(s3_text)
        title == IF t3 # "" THEN t3 ELSE TitleFromPrompt(content)
    IN IF title # "" /\ c.title \in {"", "New conversation"}
       THEN [c EXCEPT !.title = title]
       ELSE c

\* the label map the handler rebuilds from the Stage-1 list
UiLabelToModel(results) == LabelResponses(results)

\* model_roles: the role of each Stage-1 model and of the chairman
ModelRoles(results, chairman) ==
    [m \in {results[k].model : k \in 1..Len(results)} \cup {chairman} |-> get_role_spec(m).role]

\* build_contract_gate_summary
build_contract_gate_summary(results) ==
    [total |-> Len(results),
     eligible |-> Cardinality({k \in 1..Len(results) : results[k].contract_eval.eligible}),
     disqualified |-> SelectSeq(results, LAMBDA r : ~r.contract_eval.eligible)]

\* the handler's locals when its except branch has run
ExceptLocals(errors, e, chairman) ==
    [errors |-> Append(errors, e), stage1_results |-> <<>>, stage2_results |-> <<>>,
     aggregate_rankings |-> NoItem,
     stage3_result |-> Stage3Result(chairman, EmptyText, NoItem)]

\* meta of the JSON path (errors = <<>> stands for the absent key)
Meta(payload, locals) ==
    [contract_stack |-> payload.contract_stack,
     aggregate_rankings |-> locals.aggregate_rankings,
     label_to_model |-> UiLabelToModel(locals.stage1_results),
     model_roles |-> ModelRoles(locals.stage1_results, cfg.chairman),
     contract_gate |-> build_contract_gate_summary(locals.stage1_results),
     stage1_last_errors |-> MainStage1LastErrors,
     stage2_last_errors |-> MainStage2LastErrors,
     errors |-> locals.errors]

\* what the client of one request has got: an exception (exc), a JSON body
\* (result) or the events of the stream so far
ApiState(at, payload, wants_stream, has_key, role_spec, locals, exc, result, events) ==
    [at |-> at, payload |-> payload, wants_stream |-> wants_stream, has_key |-> has_key,
     role_spec |-> role_spec, locals |-> locals, exc |-> exc, result |-> result,
     events |-> events]

\* the JSON path from the credential check to the return statement
JsonPath(payload, has_key, role_spec, c) ==
    LET errors == IF has_key THEN <<>> ELSE <<"Missing OPENROUTER_API_KEY">>
        system == GetAttr(role_spec, "system")
    IN IF ~system.raised
       THEN \* await of stage1_collect_responses
            /\ api' = ApiState("stage1", payload, FALSE, has_key, role_spec, NoItem, "none", NoItem, <<>>)
            /\ convo' = c
       ELSE LET locals == ExceptLocals(errors, system.value, cfg.chairman)
                meta == Meta(payload, locals)
                saved == add_assistant_message(c, locals.stage3_result.response,
                                               locals.stage1_results, locals.stage2_results,
                                               locals.stage3_result, meta)
                titled == UpdateTitle(saved, locals.stage3_result.response, payload.content)
                name == GetAttr(role_spec, "name")
            IN /\ convo' = titled
               /\ IF name.raised
                  THEN api' = ApiState("raised", payload, FALSE, has_key, role_spec, locals,
                                       name.value, NoItem, <<>>)
                  ELSE api' = ApiState("returned", payload, FALSE, has_key, role_spec, locals,
                                       "none",
                                       [stage1 |-> locals.stage1_results,
                                        stage2 |-> locals.stage2_results,
                                        stage3 |-> locals.stage3_result,
                                        meta |-> meta,
                                        metadata |-> [title |-> titled.title, role |-> name.value]],
                                       <<>>)

Titles == {"", "Pump manual"}
Contents == {<<>>, <<"How do I prime the pump?">>, <<"", "Why does it leak?">>}
Roles == {NoModel, Gpt}
Payloads == [content : Contents, role : Roles, contract_stack : {<<>>}]

\* POST /api/conversations
api_create_conversation ==
    /\ api = NoRequest
    /\ ~convo.stored
    /\ \E title \in Titles : convo' = create_conversation(title)
    /\ UNCHANGED api
    /\ UNCHANGED CouncilVars

\* POST /api/conversations/{id}/messages up to the handler's return: the JSON
\* body, the exception, or the StreamingResponse whose generator has not run
api_send_message ==
    /\ api = NoRequest
    /\ \E payload \in Payloads, wants_stream \in BOOLEAN, has_key \in BOOLEAN :
         LET role_spec == get_role_spec(payload.role)
         IN IF ~convo.stored
            THEN /\ api' = ApiState("raised", payload, wants_stream, has_key, role_spec, NoItem,
                                    "404 Conversation not found", NoItem, <<>>)
                 /\ UNCHANGED convo
            ELSE IF wants_stream
                 THEN /\ api' = ApiState("streaming", payload, TRUE, has_key, role_spec, NoItem,
                                         "none", NoItem, <<>>)
                      /\ convo' = add_user_message(convo, payload.content)
                 ELSE JsonPath(payload, has_key, role_spec, add_user_message(convo, payload.content))
    /\ UNCHANGED CouncilVars

\* One resumption of the generator _event_stream at the position it is
\* suspended at: the event it yields next ("none" when it returns instead) and
\* its new position; ok tells whether the stage awaited at that position
\* returns (TRUE) or raises (FALSE), stored whether the conversation exists
Yield(event, message, at) == [yield |-> event, message |-> message, at |-> at]
StreamStepWithoutComplete(at, has_key, system, ok, stored) == IF at = "streaming" THEN Yield("stage1_start", "", "stage1_start") ELSE IF at = "stage1_start" THEN Yield("error", "", "error") ELSE Yield("none", "", "streamed")
StreamStep(at, has_key, system, ok, stored) ==
    CASE at = "streaming" ->
            IF ~has_key THEN Yield("error", "Missing OPENROUTER_API_KEY", "error")
            ELSE Yield("stage1_start", "", "stage1_start")
      [] at = "stage1_start" ->
            IF system.raised THEN Yield("error", system.value, "error")
            ELSE IF ok THEN Yield("stage1_complete", "", "stage1_complete")
            ELSE Yield("error", "All models failed to respond in stage1", "error")
      [] at = "stage1_complete" -> Yield("stage2_start", "", "stage2_start")
      [] at = "stage2_start" ->
            IF ok THEN Yield("stage2_complete", "", "stage2_complete")
            ELSE Yield("error", "stage2", "error")
      [] at = "stage2_complete" -> Yield("stage3_start", "", "stage3_start")
      [] at = "stage3_start" ->
            IF ok THEN Yield("stage3_complete", "", "stage3_complete")
            ELSE Yield("error", "stage3", "error")
      [] at = "stage3_complete" ->
            \* add_assistant_message raises KeyError inside the try block
            IF stored THEN Yield("title_complete", "", "title_complete")
            ELSE Yield("error", "'conversation not found'", "error")
      [] at \in {"error", "title_complete"} -> Yield("complete", "", "complete")
      [] OTHER -> Yield("none", "", "streamed")

\* the positions _event_stream can be suspended at
StreamPositions ==
    {"streaming", "stage1_start", "stage1_complete", "stage2_start", "stage2_complete",
     "stage3_start", "stage3_complete", "title_complete", "error", "complete"}

\* the client reads the next event of the stream: _event_stream runs to its
\* next yield, or to its end
_event_stream ==
    /\ api.at \in StreamPositions
    /\ \E ok \in BOOLEAN :
         \E st \in {StreamStep(api.at, api.has_key, GetAttr(api.role_spec, "system"), ok, convo.stored)} :
            /\ api' = [api EXCEPT !.at = st.at,
                                  !.events = IF st.yield = "none" THEN @ ELSE Append(@, st.yield),
                                  !.exc = IF st.yield = "error" THEN st.message ELSE @]
            /\ convo' = IF api.at = "stage3_complete" /\ convo.stored
                        THEN UpdateTitle(add_assistant_message(convo, stage3_result.response,
                                                               stage1_results, stage2_results,
                                                               stage3_result, NoItem),
                                         stage3_result.response, api.payload.content)
                        ELSE convo
    /\ UNCHANGED CouncilVars

\* the process when a request arrives: council untouched since it was loaded,
\* or its Stage 1 already run once
InitSend ==
    \/ Idle(DisagreeingCouncil)
    \/ \E items \in LadderInputs : Stage1Returned(DisagreeingCouncil, items)

SendNext == api_create_conversation \/ api_send_message \/ _event_stream

SpecSend == InitSend /\ [][SendNext]_vars

\* a JSON send_message request on a stored conversation, with a credential,
\* that the handler has finished with
JsonRequestDone == api.at \in {"returned", "raised"} /\ ~api.wants_stream /\ api.exc # "404 Conversation not found"

\* C23: a send_message request on an existing conversation, with a
\* credential present, ends with a returned result that carries one stage1
\* entry per configured generator, one stage2 entry per configured judge and
\* the chairman's response in stage3
C23_HappyPathReturnsAllStages ==
    (JsonRequestDone /\ api.has_key) =>
        /\ api.at = "returned"
        /\ Len(api.result.stage1) = Len(ConfiguredGenerators)
        /\ Len(api.result.stage2) = Len(ConfiguredJudges)
        /\ NonEmpty(api.result.stage3.response)

\* the handler's try block has raised and its except branch has run (the
\* branch that receives Stage 1's all-failed RuntimeError, like any Exception)
TryBlockRaised == JsonRequestDone /\ api.locals # NoItem

\* C24: when the try block of the JSON path has raised, the handler returns
\* (no unhandled exception) a result with stage1 = [], stage2 = [], an empty
\* stage3 response and the error message in meta.errors
C24_ErrorResultReturned ==
    TryBlockRaised =>
        /\ api.at = "returned"
        /\ api.result.stage1 = <<>>
        /\ api.result.stage2 = <<>>
        /\ ~NonEmpty(api.result.stage3.response)
        /\ api.result.meta.errors # <<>>

\* the request's assistant message has been persisted
AssistantMessageSaved ==
    /\ convo.stored
    /\ convo.messages # <<>>
    /\ convo.messages[Len(convo.messages)].role = "assistant"

\* C27: the stage1_last_errors / stage2_last_errors of the meta built for a
\* request are council's STAGE1_LAST_ERRORS / STAGE2_LAST_ERRORS as last
\* written by the stages
C27_MetaReportsLastErrors ==
    AssistantMessageSaved =>
        /\ convo.messages[Len(convo.messages)].meta.stage1_last_errors = STAGE1_LAST_ERRORS
        /\ convo.messages[Len(convo.messages)].meta.stage2_last_errors = STAGE2_LAST_ERRORS

\* C32: the meta built for a request carries in aggregate_rankings the
\* output of calculate_aggregate_rankings for the Stage-2 entries, the label
\* map and the Stage-1 contract evals of that request's result
C32_MetaCarriesAggregateRankings ==
    AssistantMessageSaved =>
        LET msg == convo.messages[Len(convo.messages)]
        IN /\ msg.meta.aggregate_rankings # NoItem
           /\ msg.meta.aggregate_rankings =
                  CalculateAggregateRankings(msg.stage2, msg.meta.label_to_model,
                                             ContractEvalsByModel(msg.stage1))

\* the event types of a stream that runs through, in the order of the yields
StageOrder ==
    <<"stage1_start", "stage1_complete", "stage2_start", "stage2_complete",
      "stage3_start", "stage3_complete", "title_complete", "complete">>

\* a sequence of events in that order, possibly cut short by one error event,
\* after which only complete may follow
WellOrdered(ev) ==
    \/ \E k \in 0..Len(StageOrder) : ev = SubSeq(StageOrder, 1, k)
    \/ \E k \in 0..(Len(StageOrder) - 1) :
          \/ ev = SubSeq(StageOrder, 1, k) \o <<"error">>
          \/ ev = SubSeq(StageOrder, 1, k) \o <<"error", "complete">>

-----------------------------------------------------------------------------
(* Cancellation of the task that runs the council                          *)

\* a chat call of the running stage is awaited
ChatOutstanding ==
    \/ pc = "stage1" /\ \E i \in DOMAIN gen : gen[i].at \in {"try1", "try2", "try_x"}
    \/ pc \in {"stage2", "adjudicate"} /\ \E i \in DOMAIN jud : jud[i].sub \in {"call", "retry"}
    \/ pc = "helper"
    \/ pc = "chairman" /\ s3.at \in {"draft", "repair"}

CancelledInAwaitSwallowed(p) == [pc |-> p, raised |-> "none"]
CancelledInAwait(p) == [pc |-> "cancelled", raised |-> "CancelledError"]

\* The task awaiting the stage is cancelled: the gather cancels its children
\* and every await raises asyncio.CancelledError, a BaseException that the
\* "except Exception" clauses around the chat calls do not match
Cancel ==
    /\ api = NoRequest
    /\ ChatOutstanding
    /\ api' = [at |-> "cancelled", stage |-> pc]
    /\ pc' = CancelledInAwait(pc).pc
    /\ raised' = CancelledInAwait(pc).raised
    /\ UNCHANGED <<parser, store, convo, cfg, contract_stack, contract_ids, gen, errors1, stage1_results, jud, errors2, stage2_results, label_to_model, aggregate_rankings, s3, stage3_result, STAGE1_LAST_ERRORS, STAGE2_LAST_ERRORS, order1>>

\* three generators and three judges whose rankings may disagree, so that
\* the adjudicator and the helper are called
DisagreeingCancelCouncil ==
    Config(<<Gpt, Sonnet, Grok>>, <<Gpt, Opus, Sonnet>>, TRUE, Gpt41, Opus, TRUE, Gemini,
           {GoodResponse},
           {Good(<<"A", "B", "C">>), Good(<<"B", "A", "C">>), Good(<<"C", "A", "B">>)},
           {ExcReply, Good(<<"A", "C", "B">>)},
           {ExcReply, GoodResponse, ProhibitedResponse}, {EmptyText, GoodResponse})

\* a google/ generator and a google/ judge, whose calls are retried after a sleep
FlakyCancelCouncil ==
    Config(<<Gemini, Gpt>>, <<Gemini>>, FALSE, Opus, Opus, FALSE, Gemini,
           {ExcReply, EmptyText, GoodResponse}, {EmptyText, Good(<<"A", "B">>)}, {ExcReply},
           {GoodResponse}, {GoodResponse})

InitCancel == \E c \in {DisagreeingCancelCouncil, FlakyCancelCouncil} : Idle(c)

CancelNext == Next \/ Cancel

SpecCancel == InitCancel /\ [][CancelNext]_vars

C28_HelperOnlyWhenDueAndShrinksIffBriefed ==
    s3.at # "none" =>
        /\ s3.helper = "called" => (cfg.helper_enabled /\ s3.len > STAGE3_HELPER_TRIGGER_CHARS)
        /\ s3.at = "helper" => s3.helper = "called"
        /\ s3.at # "helper" =>
             /\ s3.prompt \in {"full", "shrunk"}
             /\ s3.prompt = "shrunk" <=> (s3.helper = "called" /\ NonEmpty(s3.helper_brief))

\* the helper was called on a prompt one character over the threshold and
\* gave no briefing: the chairman is asked with the full prompt
C28_Witness ==
    /\ pc = "chairman"
    /\ s3.helper = "called"
    /\ s3.len = STAGE3_HELPER_TRIGGER_CHARS + 1
    /\ ~NonEmpty(s3.helper_brief)
    /\ s3.prompt = "full"

-----------------------------------------------------------------------------
(* Contract evaluation of the Stage-1 responses                            *)

\* a response with a prohibited claim that also lacks the tags
ProhibitedUntaggedResponse == ResponseText(<<"guarantee">>, <<"no_tags">>, FALSE, FALSE)

\* three generators whose responses draw every combination of hard-fail
\* reasons and warnings
EvalCouncil ==
    Config(<<Gpt, Sonnet, Grok>>, <<>>, FALSE, Opus, Opus, FALSE, Gemini,
           {EmptyText, GoodResponse, UntaggedResponse, ProhibitedResponse, ProhibitedUntaggedResponse},
           {ExcReply}, {ExcReply}, {ExcReply}, {ExcReply})

InitEval == Idle(EvalCouncil)

EvalNext == Stage1Call \/ (\E i \in DOMAIN gen : GenReply1(i)) \/ Stage1Join

SpecEval == InitEval /\ [][EvalNext]_vars

\* the Stage-1 entries whose response was evaluated, finished tasks' and returned
EvaluatedEntries ==
    {gen[i].item : i \in {j \in DOMAIN gen : gen[j].item # NoItem}}
        \cup {stage1_results[k] : k \in {j \in DOMAIN stage1_results : ~stage1_results[j].synthetic}}

\* C29: the eval of every evaluated response has status FAIL if the response
\* has a hard-fail reason, otherwise WARN if it has a warning, otherwise PASS,
\* and eligible is true exactly when the status is not FAIL
C29_StatusRule ==
    \A r \in EvaluatedEntries :
        /\ r.contract_eval.hard_fail_reasons = r.response.hard
        /\ r.contract_eval.warnings = r.response.warns
        /\ r.contract_eval.status =
               (IF r.response.hard # <<>> THEN "FAIL"
                ELSE IF r.response.warns # <<>> THEN "WARN" ELSE "PASS")
        /\ r.contract_eval.eligible <=> (r.contract_eval.status # "FAIL")
        /\ (r.response.hard = <<>> /\ r.response.warns # <<>>) => r.contract_eval.eligible

\* Stage 1 returned one response with warnings only (WARN, eligible) and one
\* with a hard-fail reason and a warning (FAIL, not eligible)
C29_Witness ==
    /\ pc = "stage1_returned"
    /\ \E r \in EvaluatedEntries :
         r.response.hard = <<>> /\ r.response.warns # <<>> /\ r.contract_eval.status = "WARN"
    /\ \E r \in EvaluatedEntries :
         r.response.hard # <<>> /\ r.response.warns # <<>> /\ r.contract_eval.status = "FAIL"

-----------------------------------------------------------------------------
(* The rank aggregation when the same model id fills two generator slots   *)

\* STAGE1_MODEL_A and STAGE1_MODEL_B name the same model
DuplicateCouncil == [AggCouncil EXCEPT !.stage1 = <<Gpt, Gpt, Grok>>]

DuplicateStage1 ==
    {<<Stage1TryOnce(Gpt, GoodResponse), Stage1TryOnce(Gpt, GoodResponse), Stage1TryOnce(Grok, c)>> :
        c \in {GoodResponse, ProhibitedResponse}}

InitRanked ==
    \/ \E items \in AggStage1 : \E entries \in AggStage2 : Stage2Returned(AggCouncil, items, entries)
    \/ \E items \in DuplicateStage1 : \E entries \in AggStage2 : Stage2Returned(DuplicateCouncil, items, entries)

SpecRanked == InitRanked /\ [][Stage3Next]_vars

\* the aggregates are in ascending order of (disqualified, average_rank)
SortedByKey ==
    \A i \in DOMAIN aggregate_rankings : \A j \in DOMAIN aggregate_rankings :
        i < j => ~AggKeyLess(aggregate_rankings[j], aggregate_rankings[i])

\* every non-partial judge gave the same ranking, and no generator is disqualified
Unanimous ==
    /\ NonPartialEntries(stage2_results) # <<>>
    /\ \A k \in DOMAIN NonPartialEntries(stage2_results) :
          NonPartialEntries(stage2_results)[k].parsed_ranking =
              NonPartialEntries(stage2_results)[1].parsed_ranking
    /\ Ineligible = {}

\* C30: the aggregates are sorted by (disqualified, average_rank), and when
\* the non-partial judges are unanimous and no generator is disqualified the
\* models are listed in the ranking's order, the model at position i has
\* average_rank i, and each rankings_count is the number of non-partial judges
C30_UnanimousRankingIsReproduced ==
    Aggregated =>
        /\ SortedByKey
        /\ Unanimous =>
             LET r == NonPartialEntries(stage2_results)[1].parsed_ranking
                 l2m == DerivedLabelToModel(stage1_results)
             IN /\ Len(aggregate_rankings) = Len(r)
                /\ \A i \in DOMAIN aggregate_rankings :
                      /\ aggregate_rankings[i].model = l2m[r[i]]
                      /\ aggregate_rankings[i].average_rank.num = i * aggregate_rankings[i].average_rank.den
                      /\ aggregate_rankings[i].rankings_count = Len(NonPartialEntries(stage2_results))


-----------------------------------------------------------------------------
(* The example ordering of the rubric, over Stage-1 lists of one to four   *)
(* entries                                                                 *)

\* a council of the first n generators and one judge
RubricCouncil(n) ==
    Config(SubSeq(<<Gpt, Sonnet, Grok, Opus>>, 1, n), <<Haiku>>, FALSE, Opus, Opus, FALSE, Gemini,
           {GoodResponse}, {ExcReply, EmptyText, NoRanking, Good(<<"A">>), Good(BCAD), RankOnly(<<"B", "A">>)},
           {ExcReply}, {ExcReply}, {ExcReply})

InitRubric ==
    \E n \in 1..4 :
        Stage1Returned(RubricCouncil(n),
                       [k \in 1..n |-> Stage1TryOnce(RubricCouncil(n).stage1[k], GoodResponse)])

SpecRubric == InitRubric /\ [][QualityNext]_vars

\* the example_line of stage2_collect_rankings, once the labels are built
ExampleLine == ExampleRanking(LabelsOf(stage1_results))

\* C31 as stated: for every label list of one to four labels, the example
\* ordering of the rubric and of the repair templates is a permutation of the
\* labels that differs from the canonical order Response A > Response B > ...
C31_Original ==
    pc = "stage2" =>
        /\ IsPermutation(ExampleLine, LabelsOf(stage1_results))
        /\ ExampleLine # LabelsOf(stage1_results)

\* C31: the example ordering of the rubric and of the repair templates is a
\* permutation of the labels; it differs from the canonical order when there
\* are two to four labels, and is the one label itself when there is one.
C31_ExampleIsNonCanonicalPermutation ==
    pc = "stage2" =>
        /\ IsPermutation(ExampleLine, LabelsOf(stage1_results))
        /\ Len(stage1_results) \in 2..4 => ExampleLine # LabelsOf(stage1_results)
        /\ Len(stage1_results) = 1 => ExampleLine = <<"Response A">>

\* four labels, and the judge has answered the rubric that shows B > C > A > D
C31_Witness ==
    /\ pc = "stage2"
    /\ Len(stage1_results) = 4
    /\ ExampleLine = <<"Response B", "Response C", "Response A", "Response D">>
    /\ \E i \in DOMAIN jud : jud[i].hist # <<>>

-----------------------------------------------------------------------------
(* The attempts of the repair ladder and the termination of Stage 2        *)

\* the outputs that take a ladder through all its attempts
DeepReplies == {ExcReply, EmptyText, RankOnly(<<"B", "A", "C">>), Good(<<"A", "C", "B">>)}

\* one google/ judge alone, or three judges that may disagree and a google/
\* adjudicator
TerminationCouncils ==
    {Config(<<Gpt, Sonnet, Grok>>, <<Gemini>>, TRUE, Opus, Opus, FALSE, Gemini, {GoodResponse},
            DeepReplies \cup {NoEvidence(<<"C", "A", "B">>)}, {ExcReply}, {ExcReply}, {ExcReply}),
     Config(<<Gpt, Sonnet, Grok>>, <<Gpt, Sonnet, Grok>>, TRUE, Gemini, Opus, FALSE, Gemini,
            {GoodResponse},
            {ExcReply, Good(<<"A", "B", "C">>), Good(<<"B", "A", "C">>), Good(<<"C", "A", "B">>)},
            DeepReplies, {ExcReply}, {ExcReply})}

InitTermination ==
    \E c \in TerminationCouncils :
        Stage1Returned(c, <<Stage1TryOnce(Gpt, GoodResponse), Stage1TryOnce(Sonnet, GoodResponse),
                            Stage1TryOnce(Grok, GoodResponse)>>)

\* every chat call returns or fails, every sleep ends, every gather resumes
SpecLadderFair == InitTermination /\ [][Stage2Next]_vars /\ WF_vars(Stage2Next)

\* the attempts of the ladder in their textual order
AttemptOrder == <<"A0", "A0ev", "A1", "A2", "A3">>
AttemptRank(at) == CHOOSE k \in DOMAIN AttemptOrder : AttemptOrder[k] = at

\* the attempts a run_one task has issued so far, in the order it issued them
AttemptsOf(task) ==
    [k \in 1..Len(task.hist) |-> task.hist[k].at]
        \o (IF task.at = "done" THEN <<>> ELSE <<task.at>>)

\* the most chat calls one run_one may start
MaxCalls(m) == IF StartsWithGoogle(m) THEN 10 ELSE 5

LadderInOrder(task) ==
    LET a == AttemptsOf(task)
    IN /\ a # <<>> /\ a[1] = "A0"
       /\ \A j, k \in DOMAIN a : j < k => AttemptRank(a[j]) < AttemptRank(a[k])
       /\ \A k \in DOMAIN a :
             a[k] = "A0ev" => /\ k = 2
                              /\ task.hist[1].ok
                              /\ task.hist[1].partial
                              /\ ~task.hist[1].exc
       /\ task.ncalls <= MaxCalls(task.m)
       /\ task.ncalls <= (IF StartsWithGoogle(task.m) THEN 2 ELSE 1) * Len(a)

\* C34: each judge's ladder (and the adjudicator's) issues its attempts only in
\* the order A0, A0', A1, A2, A3, each at most once, and A0' only when A0 was
\* acceptable but partial; it starts at most 5 chat calls, at most 10 for a
\* google/ model; and when every chat call returns or fails, Stage 2 ends by
\* returning its result list, one entry per judge and one more when the
\* adjudicator ran.
C34_LadderBoundedAndTerminates ==
    /\ [](\A i \in DOMAIN jud : LadderInOrder(jud[i]))
    /\ <>(/\ pc = "stage2_returned"
          /\ Len(stage2_results) = Len(jud)
          /\ Len(jud) \in {Len(Stage2Models(cfg)), Len(Stage2Models(cfg)) + 1})

\* Stage 2 has returned after a google/ ladder went through all five attempts,
\* A0' included, with a retry of an empty reply on the way
C34_Witness ==
    /\ pc = "stage2_returned"
    /\ \E i \in DOMAIN jud :
          /\ StartsWithGoogle(jud[i].m)
          /\ AttemptsOf(jud[i]) = AttemptOrder
          /\ jud[i].ncalls > 5

-----------------------------------------------------------------------------
(* The ranking parser on texts of several lines                            *)
(* (council.py: _parse_ranking_from_text)                                  *)

\* A line of a text: whether it holds "FINAL_RANKING:", and the chunks that
\* follow the marker (or, without a marker, the chunks of the line)
Line(final, chunks) == [final |-> final, chunks |-> chunks]

\* _extract_final_ranking_line: the index of the last line that holds
\* FINAL_RANKING:, 0 when no line does
ExtractFirstRankingLine(lines) == IF \E k \in DOMAIN lines : lines[k].final THEN CHOOSE k \in DOMAIN lines : lines[k].final /\ \A j \in DOMAIN lines : lines[j].final => k <= j ELSE 0
ExtractFinalRankingLine(lines) ==
    IF \E k \in DOMAIN lines : lines[k].final
    THEN CHOOSE k \in DOMAIN lines : lines[k].final /\ \A j \in DOMAIN lines : lines[j].final => j <= k
    ELSE 0

RECURSIVE JoinLines(_)
\* the chunks of the whole text as _extract_fuzzy_ranking_chain reads it: a
\* line break ends a chain
JoinLines(lines) ==
    IF lines = <<>> THEN <<>>
    ELSE IF Len(lines) = 1 THEN lines[1].chunks
    ELSE lines[1].chunks \o <<Junk>> \o JoinLines(Tail(lines))

\* the text as the parser reads it
TextOfLines(lines) ==
    LET k == ExtractFinalRankingLine(lines)
    IN JudgeText(FALSE, AllLines(NoLine), k # 0,
                 IF k # 0 THEN lines[k].chunks ELSE JoinLines(lines))

ParserCall(text, allowed_labels, out) ==
    [fn |-> "_parse_ranking_from_text", text |-> text, allowed_labels |-> allowed_labels,
     returned |-> out # NoItem, out |-> out]

\* _parse_ranking_from_text(text, allowed_labels) returns
parse_ranking_from_text ==
    /\ parser # NoCall
    /\ ~parser.returned
    /\ parser' = ParserCall(parser.text, parser.allowed_labels,
                            ParseRankingFromText(TextOfLines(parser.text), parser.allowed_labels))
    /\ UNCHANGED <<store, api, convo, cfg, contract_stack, contract_ids, pc, gen, errors1, stage1_results, jud, errors2, stage2_results, label_to_model, aggregate_rankings, s3, stage3_result, STAGE1_LAST_ERRORS, STAGE2_LAST_ERRORS, raised, order1>>

\* the lines a text is made of
MaxLines == 2
LineChunks ==
    {<<>>, Ranking(<<"A", "B">>), Ranking(<<"B", "A", "B", "C">>), <<Full("C"), Junk, Full("E")>>,
     <<Bare("C"), Bare("A"), Bare("B")>>, <<Bare("B"), Full("A")>>}
Texts == UNION {[1..n -> {Line(f, c) : f \in BOOLEAN, c \in LineChunks}] : n \in 0..MaxLines}
AllowedLabels == {<<>>, <<"Response A", "Response B">>, <<"Response A", "Response B", "Response C">>}

InitParser ==
    /\ \E text \in Texts, allowed_labels \in AllowedLabels :
          parser = ParserCall(text, allowed_labels, NoItem)
    /\ store = InMemory
    /\ cfg = DisagreeingCouncil
    /\ contract_stack = NoStack
    /\ contract_ids = <<>>
    /\ api = NoRequest
    /\ convo = NoConversation
    /\ pc = "idle"
    /\ gen = <<>>
    /\ errors1 = EmptyDict
    /\ stage1_results = <<>>
    /\ jud = <<>>
    /\ errors2 = EmptyDict
    /\ stage2_results = <<>>
    /\ label_to_model = EmptyDict
    /\ aggregate_rankings = <<>>
    /\ s3 = NoStage3
    /\ stage3_result = NoItem
    /\ STAGE1_LAST_ERRORS = EmptyDict
    /\ STAGE2_LAST_ERRORS = EmptyDict
    /\ raised = "none"
    /\ order1 = <<>>

SpecParser == InitParser /\ [][parse_ranking_from_text]_vars

\* the labels the chunks name, in the order of the chunks
LabelsNamed(chunks) ==
    LET named == SelectSeq(chunks, LAMBDA ch : ch.form # "junk")
    IN [k \in 1..Len(named) |-> LabelFor[named[k].letter]]

\* out lists labels of `named` without repeats, in the order of their first
\* appearance in it
InOrderOfFirstAppearance(out, named) ==
    /\ \A j, k \in DOMAIN out : out[j] = out[k] => j = k
    /\ Range(out) \subseteq Range(named)
    /\ \A j, k \in DOMAIN out :
          j < k => First({i \in DOMAIN named : named[i] = out[j]})
                      < First({i \in DOMAIN named : named[i] = out[k]})

\* the chains of a text: two or more labels in a row on one line
ChainsIn(lines) ==
    {SubSeq(lines[t[1]].chunks, t[2], t[3]) :
        t \in {u \in (DOMAIN lines) \X (1..4) \X (1..4) :
                  /\ u[2] < u[3]
                  /\ u[3] <= Len(lines[u[1]].chunks)
                  /\ \A k \in u[2]..u[3] : lines[u[1]].chunks[k].form # "junk"}}

\* the result is empty or a permutation of exactly the allowed labels
EmptyOrAllowed(out, allowed_labels) ==
    allowed_labels # <<>> => (out = <<>> \/ IsPermutation(out, allowed_labels))

\* the position of the last line of the text that holds FINAL_RANKING:, 0
\* when the text has none
LastMarkedLine(lines) ==
    LET marked == {n \in DOMAIN lines : lines[n].final}
    IN IF marked = {} THEN 0 ELSE CHOOSE n \in marked : \A n2 \in marked : n2 <= n

\* C35 as stated: the parser returns a list without repeated labels in order of
\* first appearance, taken from the last FINAL_RANKING line of the text (so
\* nothing when the text has no such line); with allowed_labels given the
\* result is empty or a permutation of exactly the allowed labels
C35_Original ==
    (parser # NoCall /\ parser.returned) =>
        LET k == LastMarkedLine(parser.text)
        IN /\ k = 0 => parser.out = <<>>
           /\ k # 0 => InOrderOfFirstAppearance(parser.out, LabelsNamed(parser.text[k].chunks))
           /\ EmptyOrAllowed(parser.out, parser.allowed_labels)

\* C35: the parser returns a list without repeated labels in order of first
\* appearance, taken from the last FINAL_RANKING line of the text or, when the
\* text has no such line, from a chain of labels joined by '>' found in it;
\* without allowed_labels it lists every label the FINAL_RANKING line names;
\* with allowed_labels given the result is empty or a permutation of exactly
\* the allowed labels
C35_ParsedFromLastRankingLine ==
    (parser # NoCall /\ parser.returned) =>
        LET k == LastMarkedLine(parser.text)
        IN /\ (k = 0 /\ parser.out # <<>>) =>
                 \E chain \in ChainsIn(parser.text) :
                    /\ InOrderOfFirstAppearance(parser.out, LabelsNamed(chain))
                    /\ parser.allowed_labels = <<>> => Range(parser.out) = Range(LabelsNamed(chain))
           /\ k # 0 => InOrderOfFirstAppearance(parser.out, LabelsNamed(parser.text[k].chunks))
           /\ (k # 0 /\ parser.allowed_labels = <<>>) =>
                 Range(parser.out) = Range(LabelsNamed(parser.text[k].chunks))
           /\ EmptyOrAllowed(parser.out, parser.allowed_labels)

\* two FINAL_RANKING lines that differ, the later one repeating a label: the
\* later one is parsed, into the permutation of the allowed labels
C35_Witness ==
    /\ parser # NoCall
    /\ parser.returned
    /\ Len(parser.text) = 2
    /\ parser.text[1] = Line(TRUE, Ranking(<<"A", "B">>))
    /\ parser.text[2] = Line(TRUE, Ranking(<<"B", "A", "B", "C">>))
    /\ parser.allowed_labels = <<"Response A", "Response B", "Response C">>
    /\ parser.out = <<"Response B", "Response A", "Response C">>

-----------------------------------------------------------------------------
(* The coercer's completion of a judge's ranking                           *)

\* the output a returned run_one task built its entry from
LastOutput(i) == jud[i].hist[Len(jud[i].hist)].out

\* the labels of the run's label set that the judge's ranking names, in the
\* judge's order, without repeats
JudgedInSet(o) ==
    Dedupe(SelectSeq(ParseRankingFromText(o, <<>>),
                     LAMBDA lab : lab \in Range(LabelsOf(stage1_results))))

\* the entries that were built from an output of the judge
BuiltFromOutput == {i \in Returned2 : jud[i].item.from # "fallback"}

\* C36: a non-empty result of the coercer has exactly five lines, the critique
\* lines of Response A to D and then FINAL_RANKING, which lists the labels the
\* judge ranked, in the judge's order without repeats, followed by the labels
\* the judge did not mention in canonical order; when the judge's ranking names
\* a label outside the label set the coercer returns empty, so that no entry is
\* built from that output
C36_CoercedFiveLinesOrEmpty ==
    \A i \in BuiltFromOutput :
        LET canonical == jud[i].item.ranking
            labels == LabelsOf(stage1_results)
            judged == JudgedInSet(LastOutput(i))
        IN /\ Len(canonical) = 5
           /\ \A k \in 1..4 : /\ canonical[k].tag = "crit"
                              /\ canonical[k].label = LabelFor[CritLetters[k]]
           /\ canonical[5].tag = "final"
           /\ canonical[5].order = judged \o SelectSeq(labels, LAMBDA lab : lab \notin Range(judged))
           /\ Range(ParseRankingFromText(LastOutput(i), <<>>)) \subseteq Range(labels)

\* C37: every Stage-2 entry with partial = false has a parsed_ranking that
\* starts with at least two labels of the run's label set that the judge itself
\* ranked, in the judge's order; a ranking that default completion alone
\* produced is never returned as non-partial
C37_NonPartialRanksTwoJudgedLabels ==
    \A i \in Returned2 :
        ~jud[i].item.partial =>
            LET judged == JudgedInSet(LastOutput(i))
            IN /\ Len(judged) >= 2
               /\ SubSeq(jud[i].item.parsed_ranking, 1, Len(judged)) = judged

-----------------------------------------------------------------------------
(* The adjudicator's entry in the aggregates                               *)

\* the aggregate of model m in a list of aggregates
AggregateOf(aggs, m) == CHOOSE e \in Range(aggs) : e.model = m

\* the position (from 1) at which an entry's ranking names the label of m
PositionIn(entry, l2m, m) ==
    CHOOSE k \in DOMAIN entry.parsed_ranking : l2m[entry.parsed_ranking[k]] = m

\* the aggregates computed from what the judges' run_one calls returned alone
JudgesOnlyAggregates ==
    CalculateAggregateRankings([k \in 1..Len(ConfiguredJudges) |-> jud[k].item],
                               DerivedLabelToModel(stage1_results),
                               ContractEvalsByModel(stage1_results))

\* the consensus gate evaluated over the returned list, adjudicator included
GateStillOpen == ShouldAdjudicate(cfg, stage2_results, LabelsOf(stage1_results))

\* C38: the adjudicator does not override the judges: a non-partial
\* adjudicator entry is aggregated exactly like one additional judge (position
\* i+1 is added to the model's rank-sum and 1 to its count), a partial
\* adjudicator entry changes no aggregate, and the consensus gate is not
\* evaluated again after the adjudicator entry is appended (one adjudicator
\* call, one adjudicator entry).
C38_AdjudicatorIsOneMoreJudge ==
    /\ Len(jud) <= Len(ConfiguredJudges) + 1
    /\ Cardinality({k \in DOMAIN stage2_results : stage2_results[k].adjudicator}) <= 1
    /\ (Aggregated /\ AdjudicatorStarted) =>
          LET l2m == DerivedLabelToModel(stage1_results)
              adj == jud[Len(jud)].item
          IN IF adj.partial THEN aggregate_rankings = JudgesOnlyAggregates
             ELSE \A l \in DOMAIN l2m :
                     LET b == AggregateOf(JudgesOnlyAggregates, l2m[l])
                         a == AggregateOf(aggregate_rankings, l2m[l])
                     IN IF b.disqualified THEN a = b
                        ELSE /\ a.rankings_count = b.rankings_count + 1
                             /\ a.average_rank.den = a.rankings_count
                             /\ a.average_rank.num =
                                   (IF b.rankings_count = 0 THEN 0 ELSE b.average_rank.num)
                                   + PositionIn(adj, l2m, l2m[l])

\* three judges disagreed, the adjudicator's non-partial entry was appended
\* and aggregated, and the gate over the returned list would still be open
C38_Witness ==
    /\ Aggregated
    /\ AdjudicatorStarted
    /\ ~jud[Len(jud)].item.partial
    /\ stage2_results[Len(stage2_results)].adjudicator
    /\ GateStillOpen

\* the adjudicator's entry was partial and the aggregates are the judges'
C38_PartialWitness ==
    /\ Aggregated
    /\ AdjudicatorStarted
    /\ jud[Len(jud)].item.partial
    /\ stage2_results[Len(stage2_results)].adjudicator

-----------------------------------------------------------------------------
(* The repair call raising                                                  *)

\* C39: if the chairman's first draft was obtained non-empty with status FAIL
\* and the repair chat call then raises, stage3_synthesize_final still returns
\* that draft with its contract eval rather than an empty response.
C39_RaisingRepairKeepsDraft ==
    (pc = "done" /\ RepairRaised /\ s3.out # EmptyText /\ s3.ev.status = "FAIL") =>
        /\ stage3_result = OriginalDraft
        /\ stage3_result.response # EmptyText

-----------------------------------------------------------------------------
(* Deleting a conversation while a request for it is in flight             *)
(* (storage.py: _load_all_conversations, delete_conversation; main.py:     *)
(* api_delete_conversation)                                                *)

\* what backs the store: persist_storage, and the file of the request's id in
\* the conversations/ directory next to the conversations file (read by
\* _load_all_conversations_from_disk, written by no function); deleted and
\* during record the DELETE handler's last {"ok": true} and the position the
\* send_message request was at when it was given
Store(persist_storage, legacy) ==
    [persist_storage |-> persist_storage, legacy |-> legacy, deleted |-> FALSE, during |-> "none"]

\* _load_all_conversations().get(id): the entry of _MEM when persist_storage is
\* off; otherwise the entry of the conversations file, and when the file has
\* none, the conversations/ directory's
_load_all_conversations(st, entry) ==
    IF ~st.persist_storage THEN entry
    ELSE IF entry.stored THEN entry ELSE st.legacy

\* delete_conversation: False when the id is not among the loaded
\* conversations; otherwise the loaded dict without the id is saved, and True
delete_conversation(st, c) ==
    IF ~c.stored THEN [ok |-> FALSE, convo |-> c]
    ELSE [ok |-> TRUE, convo |-> _load_all_conversations(st, NoConversation)]

\* DELETE /api/conversations/{id}: the handler has no await, so it runs
\* between two steps of the event loop, before a send_message request, after
\* it, or while its generator is suspended at a yield
api_delete_conversation ==
    /\ LET r == delete_conversation(store, convo)
       IN /\ convo' = r.convo
          /\ store' = IF r.ok THEN [store EXCEPT !.deleted = TRUE, !.during = api.at] ELSE store
    /\ UNCHANGED <<parser, api, cfg, contract_stack, contract_ids, pc, gen, errors1, stage1_results, jud, errors2, stage2_results, label_to_model, aggregate_rankings, s3, stage3_result, STAGE1_LAST_ERRORS, STAGE2_LAST_ERRORS, raised, order1>>

\* a conversation as an earlier version left it in conversations/<id>.json
LegacyConversation == [stored |-> TRUE, title |-> "Old notes", messages |-> <<>>]

Stores ==
    {Store(FALSE, NoConversation), Store(TRUE, NoConversation),
     Store(FALSE, LegacyConversation), Store(TRUE, LegacyConversation)}

\* the process with a conversation created earlier, or found in the
\* conversations/ directory
InitDelete ==
    /\ \E st \in Stores :
          /\ store = st
          /\ \E entry \in {NoConversation} \cup {create_conversation(t) : t \in Titles} :
                convo = _load_all_conversations(st, entry)
    /\ parser = NoCall
    /\ cfg = DisagreeingCouncil
    /\ contract_stack = NoStack
    /\ contract_ids = <<>>
    /\ api = NoRequest
    /\ pc = "idle"
    /\ gen = <<>>
    /\ errors1 = EmptyDict
    /\ stage1_results = <<>>
    /\ jud = <<>>
    /\ errors2 = EmptyDict
    /\ stage2_results = <<>>
    /\ label_to_model = EmptyDict
    /\ aggregate_rankings = <<>>
    /\ s3 = NoStage3
    /\ stage3_result = NoItem
    /\ STAGE1_LAST_ERRORS = EmptyDict
    /\ STAGE2_LAST_ERRORS = EmptyDict
    /\ raised = "none"
    /\ order1 = <<>>

DeleteNext == api_send_message \/ _event_stream \/ api_delete_conversation

SpecDelete == InitDelete /\ [][DeleteNext]_vars

\* the DELETE handler answered {"ok": true} while the generator of a
\* send_message request for the conversation was suspended at a yield
DeletedInFlight == store.deleted /\ store.during \in StreamPositions

\* C40: if a conversation is deleted (delete_conversation returned True) while
\* a send_message request for it is in flight, it is never re-created by that
\* request's later writes: from the delete on, get_conversation returns
\* nothing for the id and list_conversations does not contain it.
C40_DeletedStaysDeleted == DeletedInFlight => ~convo.stored

\* the same, for a conversation that has no file in the conversations/
\* directory of a persisting store
C40_DeletedStaysDeletedUnlessLegacy ==
    (DeletedInFlight /\ ~(store.persist_storage /\ store.legacy.stored)) => ~convo.stored

\* the stream of a request ended after the conversation was deleted under it
C40_DeletedUnderStream ==
    /\ DeletedInFlight
    /\ ~convo.stored
    /\ api.at = "streamed"

=============================================================================
